---- MODULE Spec2Model ----
(***************************************************************************)
(* BOING.py: the two-paddle ball game.  The model follows run_game frame   *)
(* by frame and the helpers it calls.                                      *)
(*                                                                         *)
(* Units.  Time is in milliseconds, as clock.tick returns it.  Velocities  *)
(* are whole pixels per second.  Positions (Paddle.y, Ball.x, Ball.y) are  *)
(* in thousandths of a pixel, so that  position += velocity * dt  is the   *)
(* exact product velocity * ms.  Rect coordinates are whole pixels, as in  *)
(* pygame.  The one rounding of the model is the product of a velocity by  *)
(* the growth factor, which is truncated to a whole pixel per second.      *)
(* The particle list is kept as groups of particles of one age and life.   *)
(*                                                                         *)
(* Python objects stored in the settings (key codes, None, True, False,    *)
(* and whatever a settings file may hold in their place) are strings.      *)
(*                                                                         *)
(* Drawing, sound, the trail, the debug overlay and the frame-time samples *)
(* have no state here: they do not feed back into the state modelled.  The *)
(* joystick calls are taken not to raise.                                  *)
(***************************************************************************)
EXTENDS Integers, Sequences, FiniteSets, TLC

VARIABLES
    pc,           \* position of run_game in its frame
    dt,           \* dt of the current frame, ms
    left,         \* left Paddle
    right,        \* right Paddle
    ball,         \* Ball
    score_left,
    score_right,
    scorer,       \* local of run_game: 0 stands for None
    right_ai,
    paused,
    hit,          \* which paddle the collision step of this frame answered
    frame,        \* frames begun in this session
    nkeys,        \* events received in this session
    event,        \* the event run_game is dispatching
    pads,         \* JOYSTICKS: the axes and hats of each, and their positions
    settings,     \* the settings record of main
    disk,         \* the two configuration directories and their files
    loaded,       \* return value of load_settings
    save_result,  \* how the last save_settings ended
    menu,         \* the locals of settings_menu, controls_rebind_menu, the
                  \* popup and main_menu
    committed,    \* the settings last committed through the settings menus
    changes,      \* changes the user has made in the menus
    writes,       \* calls of save_settings while the last event was handled
    exit_status,  \* exit status of the process, -1 while it runs
    particles,    \* the particle list, as groups [age, life, n]
    shake_timer,      \* ms
    shake_magnitude,  \* thousandths of a pixel
    base,         \* argument of get_particle_count under SpecEmit
    intensity,    \* argument of emit_particles, thousandths, under SpecEmit
    elapsed,      \* local of show_winner_and_wait, ms
    heap,         \* the dict objects of the process and the names that
                  \* refer to them, under SpecHeap
    result        \* return value of run_game

vars == <<pc, dt, left, right, ball, score_left, score_right, scorer, right_ai,
          paused, hit, frame, nkeys, event, pads, settings, disk, loaded,
          save_result, menu, committed, changes, writes, exit_status,
          particles, shake_timer, shake_magnitude, base, intensity, elapsed,
          heap, result>>

---------------------------------------------------------------------------
(* Configuration, lines 59-74 *)
WIDTH == 900
HEIGHT == 600
SCORE_TO_WIN == 5
PADDLE_WIDTH == 12
PADDLE_HEIGHT == 100
PADDLE_SPEED == 360
BALL_SIZE == 14
BALL_SPEED_START == 300
\* BALL_SPEED_INCREMENT = 0.8, in tenths
BALL_SPEED_INCREMENT == 8
MAX_BALL_SPEED == 1200

\* dt = clock.tick(FPS) / 1000.0
MsPerSec == 1000
\* AXIS_DEADZONE = 0.20, in thousandths
AXIS_DEADZONE == 200

(* Bounds of the model *)
MaxFrames == 10        \* frames of a session under Spec
MaxKeyEvents == 1      \* events of a session under Spec
RallyFrames == 1600    \* frames of a session under SpecRally

(* Inputs *)
\* clock.tick(FPS), ms: a slow frame and a stalled one
DtSet == {235, 2000}
\* a regular frame
RallyDt == {20}
\* Joystick.get_axis, thousandths: full up, inside the deadzone, on its
\* edge, half down; each times PADDLE_SPEED is a whole number of px/s
AxisSet == {-1000, -175, 200, 500}
\* random.uniform(-0.5, 0.5), thousandths
AngleSet == {-500, 0, 500}
RallyAngles == {0}
Modes == {"1p", "2p"}
Difficulties == {"Normal"}
Qualities == {"Normal"}
\* random.uniform(0.18, 0.7), ms
LifeSet == {400}
\* random.uniform(0.5, 1.1), ms
ScoreLifeSet == {800}

---------------------------------------------------------------------------
\* max taken as its second argument
MaxIsSecond(a, b) == b

Max(a, b) == IF a >= b THEN a ELSE b
Min(a, b) == IF a <= b THEN a ELSE b
Abs(n) == IF n < 0 THEN -n ELSE n

\* Python int(): truncation toward zero of n / d
Trunc(n, d) == IF n >= 0 THEN n \div d ELSE -((-n) \div d)

\* thousandths of a pixel in n pixels
Px(n) == n * MsPerSec

clamp(n, a, b) == Max(a, Min(b, n))

---------------------------------------------------------------------------
(* class Paddle *)

Paddle(x, y) ==
    [x |-> x, rect_y |-> y, y |-> Px(y), speed |-> 0, flash_timer |-> 0]

\* Paddle.move without its  if self.y < 0  clamp
PaddleClampBottomOnly(y) ==
    IF y + Px(PADDLE_HEIGHT) > Px(HEIGHT)
    THEN Px(HEIGHT - PADDLE_HEIGHT)
    ELSE y

PaddleClamp(y) ==
    LET y1 == IF y < 0 THEN 0 ELSE y
    IN  IF y1 + Px(PADDLE_HEIGHT) > Px(HEIGHT)
        THEN Px(HEIGHT - PADDLE_HEIGHT)
        ELSE y1

PaddleMove(p, ms) ==
    LET y1 == PaddleClamp(p.y + p.speed * ms)
    IN  [p EXCEPT !.y = y1,
                  !.rect_y = Trunc(y1, MsPerSec),
                  !.flash_timer = IF p.flash_timer > 0
                                  THEN Max(0, p.flash_timer - ms)
                                  ELSE p.flash_timer]

PaddleLeftEdge(p) == p.x
PaddleRightEdge(p) == p.x + PADDLE_WIDTH
PaddleCenterY(p) == p.rect_y + PADDLE_HEIGHT \div 2

---------------------------------------------------------------------------
(* class Ball *)

\* reset(direction) with the angle random.uniform drew
\* Ball.reset with the speed shared out between vx and vy
BallResetSharedSpeed(b, direction, angle) ==
    [x  |-> Px(WIDTH \div 2),
     y  |-> Px(HEIGHT \div 2),
     vx |-> Trunc(direction * BALL_SPEED_START * (1000 - Abs(angle)), 1000),
     vy |-> Trunc(BALL_SPEED_START * angle * 2, 1000),
     cx |-> WIDTH \div 2,
     cy |-> HEIGHT \div 2]

BallReset(b, direction, angle) ==
    [x  |-> Px(WIDTH \div 2),
     y  |-> Px(HEIGHT \div 2),
     vx |-> Trunc(direction * BALL_SPEED_START * (1000 + Abs(angle)), 1000),
     vy |-> Trunc(BALL_SPEED_START * angle * 2, 1000),
     cx |-> WIDTH \div 2,
     cy |-> HEIGHT \div 2]

\* Ball.update reflecting vy without putting the ball back on the bound
BallBounceNoSnap(b) ==
    LET half_h == Px(BALL_SIZE) \div 2
    IN  IF b.y - half_h <= 0 \/ b.y + half_h >= Px(HEIGHT)
        THEN [b EXCEPT !.vy = -b.vy]
        ELSE b

BallBounce(b) ==
    LET half_h == Px(BALL_SIZE) \div 2
        top == IF b.y - half_h <= 0
               THEN [b EXCEPT !.y = half_h, !.vy = -b.vy]
               ELSE b
    IN  IF top.y + half_h >= Px(HEIGHT)
        THEN [top EXCEPT !.y = Px(HEIGHT) - half_h, !.vy = -top.vy]
        ELSE top

\* Ball.update testing the bounds before the position step
BallUpdateBounceFirst(b, ms) ==
    LET bounced == BallBounce(b)
        moved == [bounced EXCEPT !.x = bounced.x + bounced.vx * ms,
                                 !.y = bounced.y + bounced.vy * ms]
    IN  [moved EXCEPT !.cx = Trunc(moved.x, MsPerSec),
                      !.cy = Trunc(moved.y, MsPerSec)]

BallUpdate(b, ms) ==
    LET moved == [b EXCEPT !.x = b.x + b.vx * ms, !.y = b.y + b.vy * ms]
        bounced == BallBounce(moved)
    IN  [bounced EXCEPT !.cx = Trunc(bounced.x, MsPerSec),
                        !.cy = Trunc(bounced.y, MsPerSec)]

BallLeft(b) == b.cx - BALL_SIZE \div 2
BallRight(b) == BallLeft(b) + BALL_SIZE
BallTop(b) == b.cy - BALL_SIZE \div 2
BallBottom(b) == BallTop(b) + BALL_SIZE

\* squared speed: hypot(vx, vy) ^ 2
Speed2(b) == b.vx * b.vx + b.vy * b.vy

---------------------------------------------------------------------------
(* Helper functions *)

\* ai_move moving the paddle already at the edge of the deadzone
AiSpeedAtDeadzone(p, b, diff) ==
    LET maxspeed == IF diff = "Easy" THEN (PADDLE_SPEED * 7) \div 10
                    ELSE IF diff = "Hard" THEN (PADDLE_SPEED * 135) \div 100
                    ELSE PADDLE_SPEED
        deadzone == IF diff = "Easy" THEN 14
                    ELSE IF diff = "Hard" THEN 4
                    ELSE 8
    IN  IF PaddleCenterY(p) <= b.cy - deadzone THEN maxspeed
        ELSE IF PaddleCenterY(p) >= b.cy + deadzone THEN -maxspeed
        ELSE 0

\* ai_move: the speed it gives the paddle
AiSpeed(p, b, diff) ==
    LET maxspeed == IF diff = "Easy" THEN (PADDLE_SPEED * 7) \div 10
                    ELSE IF diff = "Hard" THEN (PADDLE_SPEED * 135) \div 100
                    ELSE PADDLE_SPEED
        deadzone == IF diff = "Easy" THEN 14
                    ELSE IF diff = "Hard" THEN 4
                    ELSE 8
    IN  IF PaddleCenterY(p) < b.cy - deadzone THEN maxspeed
        ELSE IF PaddleCenterY(p) > b.cy + deadzone THEN -maxspeed
        ELSE 0

\* ai_move leaving the speed alone inside the deadzone
ai_move_no_stop(p, b, diff) ==
    [p EXCEPT !.speed = IF AiSpeed(p, b, diff) = 0 THEN p.speed
                        ELSE AiSpeed(p, b, diff)]

ai_move(p, b, diff) == [p EXCEPT !.speed = AiSpeed(p, b, diff)]

\* get_particle_count with the High factor 1.8 truncated to 1
get_particle_count_high_1(q, n) ==
    IF q = "Low" THEN Max(1, (n * 5) \div 10)
    ELSE IF q = "High" THEN n * (18 \div 10)
    ELSE n

get_particle_count(q, n) ==
    IF q = "Low" THEN Max(1, (n * 5) \div 10)
    ELSE IF q = "High" THEN (n * 18) \div 10
    ELSE n

\* pygame.Rect.colliderect of the ball's rect with a paddle's rect
Colliderect(b, p) ==
    /\ BallLeft(b) < PaddleRightEdge(p)
    /\ BallRight(b) > PaddleLeftEdge(p)
    /\ BallTop(b) < p.rect_y + PADDLE_HEIGHT
    /\ BallBottom(b) > p.rect_y

\* floor of the square root of n
RECURSIVE SqrtSearch(_, _, _)
SqrtSearch(n, lo, hi) ==
    IF lo >= hi THEN lo
    ELSE LET mid == (lo + hi + 1) \div 2
         IN  IF mid * mid <= n THEN SqrtSearch(n, mid, hi)
             ELSE SqrtSearch(n, lo, mid - 1)

Isqrt(n) == SqrtSearch(n, 0, 46340)

\* clamp(speed / BALL_SPEED_START, 0.8, 3.0), thousandths, of the speed whose
\* square is s2: 1000 * sqrt(s2) / 300 = sqrt(s2 * 100 / 9)
ImpactStrength(s2) ==
    IF s2 >= 9 * BALL_SPEED_START * BALL_SPEED_START THEN 3000
    ELSE clamp(Isqrt((s2 * 100) \div 9), 800, 3000)

---------------------------------------------------------------------------
(* Particle emission helpers *)

\* emit_particles without  count = max(2, min(200, count))
EmitCountUnclamped(q, strength) ==
    (get_particle_count(q, 12) * strength) \div 1000

\* count of emit_particles
EmitCount(q, strength) ==
    LET count == (get_particle_count(q, 12) * strength) \div 1000
    IN  Max(2, Min(200, count))

\* emit_particles appends count particles of age 0
emit_particles(list, q, strength, life) ==
    Append(list, [age |-> 0, life |-> life, n |-> EmitCount(q, strength)])

\* the loop of emit_score_burst for the base count n
ScoreBurst(list, q, n, life) ==
    LET count == get_particle_count(q, n)
    IN  IF count > 0
        THEN Append(list, [age |-> 0, life |-> life, n |-> count])
        ELSE list

emit_score_burst(list, q, life) == ScoreBurst(list, q, 48, life)

\* number of particles in the list
RECURSIVE Len2(_)
Len2(list) == IF list = <<>> THEN 0 ELSE Head(list).n + Len2(Tail(list))

---------------------------------------------------------------------------
(* run_game: collision response *)

\* the growth factor taken as 1.0 + BALL_SPEED_INCREMENT
ScaleByWholeIncrement(v) == Trunc(v * (10 + BALL_SPEED_INCREMENT), 10)

\* v * (1.0 + BALL_SPEED_INCREMENT / 10.0)
Scale(v) == Trunc(v * (100 + BALL_SPEED_INCREMENT), 100)

\* offset * 150.0, offset = (ball centre - paddle centre) / (height / 2)
Deflection(b, p) ==
    Trunc(150 * (b.cy - PaddleCenterY(p)), PADDLE_HEIGHT \div 2)

Deflect(b, p) == [b EXCEPT !.vy = b.vy + Deflection(b, p)]

SpeedUp(b) ==
    IF Speed2(b) < MAX_BALL_SPEED * MAX_BALL_SPEED
    THEN [b EXCEPT !.vx = Scale(b.vx), !.vy = Scale(b.vy)]
    ELSE b

\* the left response without  ball.vx = abs(ball.vx)
LeftResponseKeepsSign(b, p) ==
    LET placed == [b EXCEPT !.x = Px(PaddleRightEdge(p)) + Px(BALL_SIZE) \div 2]
    IN  SpeedUp(Deflect(placed, p))

\* the left response without  ball.x = left.rect.right + ball.rect.width / 2.0
LeftResponseUnplaced(b, p) ==
    SpeedUp(Deflect([b EXCEPT !.vx = Abs(b.vx)], p))

LeftResponse(b, p) ==
    LET placed == [b EXCEPT !.x = Px(PaddleRightEdge(p)) + Px(BALL_SIZE) \div 2,
                            !.vx = Abs(b.vx)]
    IN  SpeedUp(Deflect(placed, p))

RightResponse(b, p) ==
    LET placed == [b EXCEPT !.x = Px(PaddleLeftEdge(p)) - Px(BALL_SIZE) \div 2,
                            !.vx = -Abs(b.vx)]
    IN  SpeedUp(Deflect(placed, p))

\* impact_strength of a response: from the speed before the scale-up
ResponseStrength(b, p) == ImpactStrength(Speed2(Deflect(b, p)))

ImpactShake(strength) == Min(18000, 6 * strength)

\* Particle.update for every particle, then the prune
\* the particle step keeping a particle whose age equals its life
StepParticlesKeepsSpent(list, ms) ==
    LET aged == [i \in 1..Len(list) |-> [list[i] EXCEPT !.age = list[i].age + ms]]
    IN  SelectSeq(aged, LAMBDA g : ~(g.age > g.life))

StepParticles(list, ms) ==
    LET aged == [i \in 1..Len(list) |-> [list[i] EXCEPT !.age = list[i].age + ms]]
    IN  SelectSeq(aged, LAMBDA g : ~(g.age >= g.life))

---------------------------------------------------------------------------
(* Settings and their file *)

DEFAULT_SETTINGS ==
    [ai_difficulty |-> "Normal",
     particle_quality |-> "Normal",
     sound |-> "True",
     controls |-> [left_up |-> "w", left_down |-> "s", right_up |-> "UP",
                   right_down |-> "DOWN", reset |-> "r", menu |-> "m",
                   debug |-> "F3"]]

\* the dict objects at module level: DEFAULT_SETTINGS is object 1 and its
\* "controls" refers to object 2; main has not loaded its settings yet
NoHeap ==
    [obj |-> <<[DEFAULT_SETTINGS EXCEPT !.controls = 2],
               DEFAULT_SETTINGS.controls>>,
     main |-> 0,
     menu |-> 0,
     bindings |-> 0]

\* d.update(e)
Update(d, e) ==
    [k \in DOMAIN d \cup DOMAIN e |-> IF k \in DOMAIN e THEN e[k] ELSE d[k]]

\* what pickle.dump(s, f) leaves in the file
Pickled(s) == [kind |-> "dict", data |-> s, controls_is_dict |-> TRUE]

NoFile == [kind |-> "missing", data |-> <<>>, controls_is_dict |-> FALSE]

\* load_settings reads the file of the primary directory only
load_settings(d) ==
    LET f == d.primary.file
        stored == IF "controls" \in DOMAIN f.data /\ f.controls_is_dict
                  THEN f.data.controls
                  ELSE <<>>
    IN  IF f.kind = "dict"
        THEN [Update(DEFAULT_SETTINGS, f.data) EXCEPT
                 !.controls = Update(DEFAULT_SETTINGS.controls, stored)]
        ELSE DEFAULT_SETTINGS

\* os.makedirs(dir, exist_ok=True) raises for a directory that cannot be made
ensure_config_dir(d) ==
    IF d.primary.dir # "blocked" THEN "primary"
    ELSE IF d.fallback.dir # "blocked" THEN "fallback"
    ELSE "raise"

\* save_settings: the disk it leaves and how it ended ("ok"; "error" for
\* the failure it prints; "raised" for the exception it lets through)
save_settings(d, s) ==
    LET config_dir == ensure_config_dir(d)
    IN  IF config_dir = "raise" THEN [disk |-> d, result |-> "raised"]
        ELSE LET made == [d EXCEPT ![config_dir].dir = "dir"]
                 config_path == IF made.primary.dir # "dir"
                                THEN config_dir
                                ELSE "primary"
             IN  IF made.writable
                 THEN [disk |-> [made EXCEPT ![config_path].file = Pickled(s)],
                       result |-> "ok"]
                 ELSE [disk |-> made, result |-> "error"]

\* settings.get("ai_difficulty", "Normal") and its like
ai_difficulty == settings.ai_difficulty
particle_quality == settings.particle_quality
controls == settings.controls

\* a machine on which the settings have never been saved
NoDisk ==
    [primary |-> [dir |-> "absent", file |-> NoFile],
     fallback |-> [dir |-> "absent", file |-> NoFile],
     writable |-> TRUE]

\* the settings run_game is called with
GameSettings(D, Q) ==
    {[DEFAULT_SETTINGS EXCEPT !.ai_difficulty = d, !.particle_quality = q] :
        d \in D, q \in Q}

NoEvent == [type |-> "NONE", key |-> ""]

\* the locals of the menus when settings_menu is entered with the record s:
\* its settings is the very dict of main
NoMenu(s) ==
    [settings |-> s,
     shared |-> TRUE,
     selected |-> [main_menu |-> 0, settings_menu |-> 0,
                   controls_rebind_menu |-> 0],
     bindings |-> s.controls,
     awaiting_action_key |-> "None",
     selected_yes |-> TRUE]

\* no menu is open and nothing has been saved
NoShell ==
    /\ disk = NoDisk
    /\ loaded = DEFAULT_SETTINGS
    /\ save_result = "none"
    /\ menu = NoMenu(settings)
    /\ committed = settings
    /\ changes = 0
    /\ writes = 0
    /\ exit_status = -1

Keys == {"w", "s", "UP", "DOWN", "r", "m", "ESCAPE"}

Events ==
    {[type |-> "QUIT", key |-> ""]}
      \cup [type : {"KEYDOWN"}, key : Keys]
      \cup [type : {"KEYUP"}, key : {"w", "s", "UP", "DOWN"}]

---------------------------------------------------------------------------
(* run_game *)

InitWith(A) ==
    /\ pc = "poll"
    /\ dt = 0
    /\ left = Paddle(20, HEIGHT \div 2 - PADDLE_HEIGHT \div 2)
    /\ right = Paddle(WIDTH - 20 - PADDLE_WIDTH, HEIGHT \div 2 - PADDLE_HEIGHT \div 2)
    /\ \E a \in A : ball = BallReset([x |-> 0], 1, a)
    /\ score_left = 0
    /\ score_right = 0
    /\ scorer = 0
    /\ \E mode \in Modes : right_ai = (mode = "1p")
    /\ paused = FALSE
    /\ hit = "none"
    /\ frame = 0
    /\ nkeys = 0
    /\ event = NoEvent
    /\ pads = <<>>
    /\ settings \in GameSettings(Difficulties, Qualities)
    /\ NoShell
    /\ particles = <<>>
    /\ shake_timer = 0
    /\ shake_magnitude = 0
    /\ base = 0
    /\ intensity = 0
    /\ elapsed = 0
    /\ heap = NoHeap
    /\ result = "running"

Init == InitWith(AngleSet)

fixed == <<right_ai, settings, disk, loaded, save_result, menu, committed,
           changes, writes, exit_status, base, intensity, elapsed, heap>>

\* 0.0 if abs(v) < AXIS_DEADZONE else v, times PADDLE_SPEED; v in thousandths
AxisSpeed(v) ==
    IF Abs(v) < AXIS_DEADZONE THEN 0 ELSE Trunc(v * PADDLE_SPEED, MsPerSec)

\* what the axis 1 and the hat of the joystick j make of the speed s
StickSpeed(j, s) ==
    LET s1 == IF j.numaxes > 1 THEN AxisSpeed(j.axis1) ELSE s
    IN  IF j.numhats > 0 /\ j.hat[2] # 0 THEN -j.hat[2] * PADDLE_SPEED ELSE s1

\* left.speed after the polling of JOYSTICKS[0]
PollLeft(p, J) ==
    IF J = <<>> THEN p.speed ELSE StickSpeed(J[1], p.speed)

\* right.speed after the polling of JOYSTICKS[1], or of the axis 3 of
\* JOYSTICKS[0] when it is the only one
PollRight(p, J) ==
    IF J = <<>> THEN p.speed
    ELSE IF Len(J) >= 2 THEN StickSpeed(J[2], p.speed)
    ELSE IF J[1].numaxes > 3 THEN AxisSpeed(J[1].axis3)
    ELSE p.speed

\* where the axes 1 and 3 of the joysticks may stand when they are polled
Polled(J) ==
    {[i \in DOMAIN J |->
        [J[i] EXCEPT !.axis1 = IF J[i].numaxes > 1 THEN v[i][1] ELSE @,
                     !.axis3 = IF J[i].numaxes > 3 THEN v[i][2] ELSE @]] :
        v \in [DOMAIN J -> AxisSet \X AxisSet]}

\* dt = clock.tick(FPS) / 1000.0 and the polling of the joysticks
Poll(D, maxf) ==
    /\ pc = "poll"
    /\ frame < maxf
    /\ frame' = frame + 1
    /\ dt' \in D
    /\ pads' \in Polled(pads)
    /\ left' = [left EXCEPT !.speed = PollLeft(left, pads')]
    /\ right' = [right EXCEPT !.speed = PollRight(right, pads')]
    /\ pc' = "events"
    /\ UNCHANGED <<ball, score_left, score_right, scorer, paused,
                   hit, nkeys, event, particles, shake_timer, shake_magnitude,
                   result>>
    /\ UNCHANGED fixed

\* JOYBUTTONDOWN
JoyButtonDown(b, A) ==
    IF b = 0 THEN
        /\ score_left' = 0
        /\ score_right' = 0
        /\ \E d \in {-1, 1} : \E a \in A : ball' = BallReset(ball, d, a)
        /\ UNCHANGED <<left, right, pc, result>>
    ELSE IF b = 1 THEN
        /\ pc' = "exit"
        /\ result' = "menu"
        /\ UNCHANGED <<left, right, ball, score_left, score_right>>
    ELSE UNCHANGED <<left, right, ball, score_left, score_right, pc, result>>

\* JOYHATMOTION
HatMotion(jid, hat_y) ==
    /\ left' = IF jid = 0 THEN [left EXCEPT !.speed = -hat_y * PADDLE_SPEED]
               ELSE left
    /\ right' = IF jid = 1 THEN [right EXCEPT !.speed = -hat_y * PADDLE_SPEED]
                ELSE right
    /\ UNCHANGED <<ball, score_left, score_right, pc, result>>

\* the event e can be in the queue: a hat event comes from a hat of a
\* joystick that has moved to the value it reports, a button event from a
\* joystick
Queued(e) ==
    IF e.type = "JOYHATMOTION"
    THEN /\ e.joy < Len(pads)
         /\ pads[e.joy + 1].numhats > 0
         /\ pads[e.joy + 1].hat # e.value
    ELSE IF e.type = "JOYBUTTONDOWN" THEN pads # <<>>
    ELSE TRUE

\* the joysticks once the event e has been taken from the queue
Moved(e) ==
    IF e.type = "JOYHATMOTION"
    THEN [pads EXCEPT ![e.joy + 1].hat = e.value]
    ELSE pads

\* one event of the queue
KeyDown(k, A) ==
    IF k = controls.left_up THEN
        /\ left' = [left EXCEPT !.speed = -PADDLE_SPEED]
        /\ UNCHANGED <<right, ball, score_left, score_right, pc, result>>
    ELSE IF k = controls.left_down THEN
        /\ left' = [left EXCEPT !.speed = PADDLE_SPEED]
        /\ UNCHANGED <<right, ball, score_left, score_right, pc, result>>
    ELSE IF k = controls.right_up /\ ~right_ai THEN
        /\ right' = [right EXCEPT !.speed = -PADDLE_SPEED]
        /\ UNCHANGED <<left, ball, score_left, score_right, pc, result>>
    ELSE IF k = controls.right_down /\ ~right_ai THEN
        /\ right' = [right EXCEPT !.speed = PADDLE_SPEED]
        /\ UNCHANGED <<left, ball, score_left, score_right, pc, result>>
    ELSE IF k = controls.reset THEN
        /\ score_left' = 0
        /\ score_right' = 0
        /\ \E d \in {-1, 1} : \E a \in A : ball' = BallReset(ball, d, a)
        /\ UNCHANGED <<left, right, pc, result>>
    ELSE IF k = controls.menu THEN
        /\ pc' = "exit"
        /\ result' = "menu"
        /\ UNCHANGED <<left, right, ball, score_left, score_right>>
    ELSE IF k = controls.debug THEN
        UNCHANGED <<left, right, ball, score_left, score_right, pc, result>>
    ELSE IF k = "ESCAPE" THEN
        /\ pc' = "exit"
        /\ result' = "None"
        /\ UNCHANGED <<left, right, ball, score_left, score_right>>
    ELSE UNCHANGED <<left, right, ball, score_left, score_right, pc, result>>

KeyUpSpeedAnyDirection(p, k, up, down) ==
    IF k = up \/ k = down THEN 0 ELSE p.speed

KeyUpSpeed(p, k, up, down) ==
    LET s1 == IF k = up /\ p.speed < 0 THEN 0 ELSE p.speed
    IN  IF k = down /\ s1 > 0 THEN 0 ELSE s1

KeyUp(k) ==
    /\ left' = [left EXCEPT !.speed =
                   KeyUpSpeed(left, k, controls.left_up, controls.left_down)]
    /\ right' = [right EXCEPT !.speed =
                   KeyUpSpeed(right, k, controls.right_up, controls.right_down)]
    /\ UNCHANGED <<ball, score_left, score_right, pc, result>>

Event(E, A) ==
    /\ pc = "events"
    /\ nkeys < MaxKeyEvents
    /\ nkeys' = nkeys + 1
    /\ \E e \in E :
         /\ Queued(e)
         /\ event' = e
         /\ pads' = Moved(e)
         /\ IF e.type = "QUIT" THEN
                /\ pc' = "exit"
                /\ result' = "None"
                /\ UNCHANGED <<left, right, ball, score_left, score_right>>
            ELSE IF e.type = "JOYBUTTONDOWN" THEN JoyButtonDown(e.button, A)
            ELSE IF e.type = "JOYHATMOTION" THEN HatMotion(e.joy, e.value[2])
            ELSE IF e.type = "KEYDOWN" THEN KeyDown(e.key, A)
            ELSE KeyUp(e.key)
    /\ UNCHANGED <<dt, scorer, paused, hit, frame, particles, shake_timer,
                   shake_magnitude>>
    /\ UNCHANGED fixed

\* the event queue is empty: ai_move, Paddle.move, Ball.update
Integrate ==
    /\ pc = "events"
    /\ LET r == IF right_ai THEN ai_move(right, ball, ai_difficulty) ELSE right
       IN  /\ left' = PaddleMove(left, dt)
           /\ right' = PaddleMove(r, dt)
    /\ ball' = IF ~paused THEN BallUpdate(ball, dt) ELSE ball
    /\ event' = NoEvent
    /\ UNCHANGED pads
    /\ pc' = "collide"
    /\ UNCHANGED <<dt, score_left, score_right, scorer, paused, hit, frame,
                   nkeys, particles, shake_timer, shake_magnitude, result>>
    /\ UNCHANGED fixed

Collide ==
    /\ pc = "collide"
    /\ LET hl == Colliderect(ball, left)
           b1 == IF hl THEN LeftResponse(ball, left) ELSE ball
           hr == Colliderect(b1, right)
           b2 == IF hr THEN RightResponse(b1, right) ELSE b1
           sl == ResponseStrength(ball, left)
           sr == ResponseStrength(b1, right)
       IN  /\ ball' = b2
           /\ hit' = IF hl /\ hr THEN "both"
                     ELSE IF hl THEN "left"
                     ELSE IF hr THEN "right"
                     ELSE "none"
           /\ left' = IF hl THEN [left EXCEPT !.flash_timer = 120] ELSE left
           /\ right' = IF hr THEN [right EXCEPT !.flash_timer = 120] ELSE right
           /\ \E l1 \in LifeSet : \E l2 \in LifeSet :
                LET p1 == IF hl THEN emit_particles(particles, particle_quality, sl, l1)
                          ELSE particles
                IN  particles' = IF hr THEN emit_particles(p1, particle_quality, sr, l2)
                                 ELSE p1
           /\ LET t1 == IF hl THEN Max(shake_timer, 120) ELSE shake_timer
                  m1 == IF hl THEN Max(shake_magnitude, ImpactShake(sl))
                        ELSE shake_magnitude
              IN  /\ shake_timer' = IF hr THEN Max(t1, 120) ELSE t1
                  /\ shake_magnitude' = IF hr THEN Max(m1, ImpactShake(sr)) ELSE m1
    /\ pc' = "score"
    /\ UNCHANGED <<dt, score_left, score_right, scorer, paused, frame, nkeys, event, pads,
                   result>>
    /\ UNCHANGED fixed

\* the win test with > in the place of >=
WonAbove(l, r) == SCORE_TO_WIN > 0 /\ (l > SCORE_TO_WIN \/ r > SCORE_TO_WIN)

\* has either side reached SCORE_TO_WIN
Won(l, r) == SCORE_TO_WIN > 0 /\ (l >= SCORE_TO_WIN \/ r >= SCORE_TO_WIN)

\* the two sides of the scoring test exchanged
ScorerSwapped(b) ==
    IF BallRight(b) < 0 THEN -1
    ELSE IF BallLeft(b) > WIDTH THEN 1
    ELSE 0

\* serve_dir = scorer
ServeDirTowardScorer(s) == s

\* scorer: 1 when the ball left on the left, -1 on the right, 0 for None
Scorer(b) ==
    IF BallRight(b) < 0 THEN 1
    ELSE IF BallLeft(b) > WIDTH THEN -1
    ELSE 0

\* serve_dir = -scorer
ServeDir(s) == -s

Score(A) ==
    /\ pc = "score"
    /\ LET s == Scorer(ball)
       IN  /\ scorer' = s
           /\ score_right' = IF s = 1 THEN score_right + 1 ELSE score_right
           /\ score_left' = IF s = -1 THEN score_left + 1 ELSE score_left
           /\ IF s # 0
              THEN /\ \E life \in ScoreLifeSet :
                        particles' = emit_score_burst(particles, particle_quality, life)
                   /\ \E a \in A : ball' = BallReset(ball, ServeDir(s), a)
                   /\ shake_timer' = Max(shake_timer, 220)
                   /\ shake_magnitude' = Max(shake_magnitude, 22000)
              ELSE UNCHANGED <<particles, ball, shake_timer, shake_magnitude>>
    /\ pc' = IF scorer' # 0 /\ Won(score_left', score_right')
             THEN "banner"
             ELSE "effects"
    /\ UNCHANGED <<dt, left, right, paused, hit, frame, nkeys, event, pads, result>>
    /\ UNCHANGED fixed

\* show_winner_and_wait returns True: a QUIT event
BannerQuit ==
    /\ pc = "banner"
    /\ pc' = "exit"
    /\ result' = "None"
    /\ UNCHANGED <<dt, left, right, ball, score_left, score_right, scorer,
                   paused, hit, frame, nkeys, event, pads, particles, shake_timer,
                   shake_magnitude>>
    /\ UNCHANGED fixed

\* show_winner_and_wait returns False: a key, a button or the timeout
BannerDone(A) ==
    /\ pc = "banner"
    /\ score_left' = 0
    /\ score_right' = 0
    /\ \E d \in {-1, 1} : \E a \in A : ball' = BallReset(ball, d, a)
    /\ paused' = FALSE
    /\ pc' = "effects"
    /\ UNCHANGED <<dt, left, right, scorer, hit, frame, nkeys, event, pads, particles,
                   shake_timer, shake_magnitude, result>>
    /\ UNCHANGED fixed

\* particles advance and are pruned, the shake decays
Effects ==
    /\ pc = "effects"
    /\ particles' = StepParticles(particles, dt)
    /\ shake_timer' = IF shake_timer > 0 THEN Max(0, shake_timer - dt)
                      ELSE shake_timer
    /\ shake_magnitude' = IF shake_timer > 0 /\ shake_timer' <= 0 THEN 0
                          ELSE shake_magnitude
    /\ pc' = "poll"
    /\ UNCHANGED <<dt, left, right, ball, score_left, score_right, scorer,
                   paused, hit, frame, nkeys, event, pads, result>>
    /\ UNCHANGED fixed

Next ==
    \/ Poll(DtSet, MaxFrames)
    \/ Event(Events, AngleSet)
    \/ Integrate
    \/ Collide
    \/ Score(AngleSet)
    \/ BannerQuit
    \/ BannerDone(AngleSet)
    \/ Effects

Spec == Init /\ [][Next]_vars

(* A session at the regular frame rate in which nobody touches a key and *)
(* every serve is level.                                                 *)
InitRally == InitWith(RallyAngles)

NextRally ==
    \/ Poll(RallyDt, RallyFrames)
    \/ Integrate
    \/ Collide
    \/ Score(RallyAngles)
    \/ Effects

SpecRally == InitRally /\ [][NextRally]_vars

---------------------------------------------------------------------------
(* The emission helpers on their own: get_particle_count and            *)
(* emit_particles applied to arguments drawn at the start.              *)

MaxBase == 60          \* largest base count tried
MaxIntensity == 20     \* largest intensity tried, in halves

EmitQualities == {"Low", "Normal", "High"}
EmitLists == {<<>>, <<[age |-> 0, life |-> 400, n |-> 7]>>}

InitEmit ==
    /\ pc = "emit"
    /\ settings \in GameSettings({"Normal"}, EmitQualities)
    /\ base \in 1..MaxBase
    /\ intensity \in {500 * i : i \in 0..MaxIntensity}
    /\ particles \in EmitLists
    /\ dt = 0
    /\ left = Paddle(20, HEIGHT \div 2 - PADDLE_HEIGHT \div 2)
    /\ right = Paddle(WIDTH - 20 - PADDLE_WIDTH, HEIGHT \div 2 - PADDLE_HEIGHT \div 2)
    /\ ball = BallReset([x |-> 0], 1, 0)
    /\ score_left = 0
    /\ score_right = 0
    /\ scorer = 0
    /\ right_ai = TRUE
    /\ paused = FALSE
    /\ hit = "none"
    /\ frame = 0
    /\ nkeys = 0
    /\ event = NoEvent
    /\ pads = <<>>
    /\ NoShell
    /\ shake_timer = 0
    /\ shake_magnitude = 0
    /\ elapsed = 0
    /\ heap = NoHeap
    /\ result = "running"

\* emit_particles(particles, pos, direction, settings, intensity)
Emit ==
    /\ pc = "emit"
    /\ \E life \in LifeSet :
         particles' = emit_particles(particles, particle_quality, intensity, life)
    /\ pc' = "emitted"
    /\ UNCHANGED <<dt, left, right, ball, score_left, score_right, scorer,
                   paused, hit, frame, nkeys, event, pads, shake_timer, shake_magnitude,
                   result>>
    /\ UNCHANGED fixed

\* emit_score_burst with base in the place of its 48
EmitBase ==
    /\ pc = "emit"
    /\ \E life \in ScoreLifeSet :
         particles' = ScoreBurst(particles, particle_quality, base, life)
    /\ pc' = "counted"
    /\ UNCHANGED <<dt, left, right, ball, score_left, score_right, scorer,
                   paused, hit, frame, nkeys, event, pads, shake_timer, shake_magnitude,
                   result>>
    /\ UNCHANGED fixed

NextEmit == Emit \/ EmitBase

SpecEmit == InitEmit /\ [][NextEmit]_vars

---------------------------------------------------------------------------
(* load_settings and save_settings on their own: a disk and a settings   *)
(* record drawn at the start, then a load, or a save and a reload.       *)

\* the variables of run_game
game == <<dt, left, right, ball, score_left, score_right, scorer, right_ai,
          paused, hit, frame, nkeys, pads, particles, shake_timer,
          shake_magnitude, base, intensity, elapsed, heap, result>>

\* run_game is not running
NoGame ==
    /\ dt = 0
    /\ left = Paddle(20, HEIGHT \div 2 - PADDLE_HEIGHT \div 2)
    /\ right = Paddle(WIDTH - 20 - PADDLE_WIDTH, HEIGHT \div 2 - PADDLE_HEIGHT \div 2)
    /\ ball = BallReset([x |-> 0], 1, 0)
    /\ score_left = 0
    /\ score_right = 0
    /\ scorer = 0
    /\ right_ai = TRUE
    /\ paused = FALSE
    /\ hit = "none"
    /\ frame = 0
    /\ nkeys = 0
    /\ event = NoEvent
    /\ pads = <<>>
    /\ particles = <<>>
    /\ shake_timer = 0
    /\ shake_magnitude = 0
    /\ base = 0
    /\ intensity = 0
    /\ elapsed = 0
    /\ heap = NoHeap
    /\ result = "running"

FieldNames == {"ai_difficulty", "particle_quality", "sound", "controls"}
ActionNames == DOMAIN DEFAULT_SETTINGS.controls

\* what a settings file may hold in each field: a valid value that is not
\* the default, and one that is not valid
StoredDifficulties == {"Easy", "Insane"}
StoredQualities == {"High", "Ultra"}
StoredSounds == {"False", "loud"}
\* the controls of a file: not a dict, or a dict of some of the bindings
StoredControls ==
    {[is_dict |-> FALSE, map |-> <<>>],
     [is_dict |-> TRUE, map |-> <<>>],
     [is_dict |-> TRUE, map |-> [left_up |-> "None"]],
     [is_dict |-> TRUE, map |-> [left_up |-> "a", debug |-> "None"]],
     [is_dict |-> TRUE, map |-> [reset |-> "bad"]],
     [is_dict |-> TRUE,
      map |-> [DEFAULT_SETTINGS.controls EXCEPT !.menu = "None", !.reset = "x"]]}

\* a pickled dict with the fields K
StoredDict(K, a, q, snd, c) ==
    [kind |-> "dict",
     data |-> [k \in K |-> CASE k = "ai_difficulty" -> a
                            [] k = "particle_quality" -> q
                            [] k = "sound" -> snd
                            [] k = "controls" -> c.map],
     controls_is_dict |-> "controls" \in K /\ c.is_dict]

\* the files load_settings may find: none, one it cannot read, one that
\* does not unpickle, a pickle of something that is not a dict, a dict
StoredFiles ==
    {[NoFile EXCEPT !.kind = k] : k \in {"missing", "unreadable", "corrupt", "other"}}
      \cup {StoredDict(K, a, q, snd, c) :
               K \in SUBSET FieldNames, a \in StoredDifficulties,
               q \in StoredQualities, snd \in StoredSounds,
               c \in StoredControls}

\* the records save_settings is given
SavedSettings ==
    {DEFAULT_SETTINGS,
     [ai_difficulty |-> "Hard", particle_quality |-> "Low", sound |-> "False",
      controls |-> [DEFAULT_SETTINGS.controls EXCEPT
                       !.left_up = "None", !.reset = "x"]],
     [DEFAULT_SETTINGS EXCEPT !.controls = [a \in ActionNames |-> "None"]]}

\* a file lies in a directory that exists
Disks ==
    {[primary |-> [dir |-> pd, file |-> pf],
      fallback |-> [dir |-> fd, file |-> NoFile],
      writable |-> w] :
        pd \in {"dir", "absent", "blocked"}, pf \in StoredFiles,
        fd \in {"absent", "blocked"}, w \in BOOLEAN}

InitLoad ==
    /\ pc = "io"
    /\ disk \in {d \in Disks : d.primary.file.kind # "missing" => d.primary.dir = "dir"}
    /\ settings \in SavedSettings
    /\ loaded = DEFAULT_SETTINGS
    /\ save_result = "none"
    /\ menu = NoMenu(settings)
    /\ committed = settings
    /\ changes = 0
    /\ writes = 0
    /\ exit_status = -1
    /\ NoGame

\* load_settings()
Load ==
    /\ pc \in {"io", "saved"}
    /\ loaded' = load_settings(disk)
    /\ pc' = IF pc = "io" THEN "loaded" ELSE "reloaded"
    /\ UNCHANGED <<settings, disk, save_result, menu, committed, changes,
                   writes, exit_status, event>>
    /\ UNCHANGED game

\* save_settings(settings)
Save ==
    /\ pc = "io"
    /\ disk' = save_settings(disk, settings).disk
    /\ save_result' = save_settings(disk, settings).result
    /\ writes' = 1
    /\ pc' = "saved"
    /\ UNCHANGED <<settings, loaded, menu, committed, changes, exit_status,
                   event>>
    /\ UNCHANGED game

NextLoad == Load \/ Save

SpecLoad == InitLoad /\ [][NextLoad]_vars

---------------------------------------------------------------------------
(* ai_move on its own: a paddle, a ball and a difficulty drawn at the    *)
(* start.                                                                *)

MaxOffset == 16        \* largest distance between the two centres tried

AiDifficulties == {"Easy", "Normal", "Hard"}
\* Paddle.rect.y and Paddle.speed before the call
AiPaddleYs == {0, 250, HEIGHT - PADDLE_HEIGHT}
AiPaddleSpeeds == {0, -PADDLE_SPEED, (PADDLE_SPEED * 7) \div 10}
\* Ball.vx before the call
AiBallVxs == {-BALL_SPEED_START, MAX_BALL_SPEED}

InitAi ==
    /\ pc = "ai"
    /\ settings \in GameSettings(AiDifficulties, {"Normal"})
    /\ \E y \in AiPaddleYs : \E v \in AiPaddleSpeeds :
         right = [Paddle(WIDTH - 20 - PADDLE_WIDTH, y) EXCEPT !.speed = v]
    /\ \E d \in (-MaxOffset)..MaxOffset : \E vx \in AiBallVxs :
         ball = [x |-> Px(WIDTH \div 2),
                 y |-> Px(right.rect_y + PADDLE_HEIGHT \div 2 + d),
                 vx |-> vx,
                 vy |-> 0,
                 cx |-> WIDTH \div 2,
                 cy |-> right.rect_y + PADDLE_HEIGHT \div 2 + d]
    /\ dt = 0
    /\ left = Paddle(20, HEIGHT \div 2 - PADDLE_HEIGHT \div 2)
    /\ score_left = 0
    /\ score_right = 0
    /\ scorer = 0
    /\ right_ai = TRUE
    /\ paused = FALSE
    /\ hit = "none"
    /\ frame = 0
    /\ nkeys = 0
    /\ event = NoEvent
    /\ pads = <<>>
    /\ NoShell
    /\ particles = <<>>
    /\ shake_timer = 0
    /\ shake_magnitude = 0
    /\ base = 0
    /\ intensity = 0
    /\ elapsed = 0
    /\ heap = NoHeap
    /\ result = "running"

\* ai_move(right, ball, settings)
AiMove ==
    /\ pc = "ai"
    /\ right' = ai_move(right, ball, ai_difficulty)
    /\ pc' = "moved"
    /\ UNCHANGED <<dt, left, ball, score_left, score_right, scorer, paused,
                   hit, frame, nkeys, event, pads, particles, shake_timer,
                   shake_magnitude, result>>
    /\ UNCHANGED fixed

NextAi == AiMove

SpecAi == InitAi /\ [][NextAi]_vars

---------------------------------------------------------------------------
(* The event loop of run_game on its own: two paddles at rest or moving, *)
(* as earlier events or ai_move left them, and one event of the queue.   *)

\* Paddle.speed before the event: at rest, set by a key, set by ai_move
KeySpeeds ==
    {0, -PADDLE_SPEED, PADDLE_SPEED, -((PADDLE_SPEED * 7) \div 10),
     (PADDLE_SPEED * 135) \div 100}

\* the direction keys and a key that is not bound
KeyEvents == [type : {"KEYDOWN", "KEYUP"}, key : {"w", "s", "UP", "DOWN", "x"}]

InitKeys ==
    /\ pc = "events"
    /\ dt \in RallyDt
    /\ \E v \in KeySpeeds \cap (-PADDLE_SPEED)..PADDLE_SPEED :
         left = [Paddle(20, HEIGHT \div 2 - PADDLE_HEIGHT \div 2)
                   EXCEPT !.speed = v]
    /\ \E v \in KeySpeeds :
         right = [Paddle(WIDTH - 20 - PADDLE_WIDTH,
                         HEIGHT \div 2 - PADDLE_HEIGHT \div 2)
                    EXCEPT !.speed = v]
    /\ \E a \in RallyAngles : ball = BallReset([x |-> 0], 1, a)
    /\ score_left = 0
    /\ score_right = 0
    /\ scorer = 0
    /\ \E mode \in Modes : right_ai = (mode = "1p")
    /\ paused = FALSE
    /\ hit = "none"
    /\ frame = 1
    /\ nkeys = 0
    /\ event = NoEvent
    /\ pads = <<>>
    /\ settings \in GameSettings(Difficulties, Qualities)
    /\ NoShell
    /\ particles = <<>>
    /\ shake_timer = 0
    /\ shake_magnitude = 0
    /\ base = 0
    /\ intensity = 0
    /\ elapsed = 0
    /\ heap = NoHeap
    /\ result = "running"

NextKeys == Event(KeyEvents, RallyAngles)

SpecKeys == InitKeys /\ [][NextKeys]_vars

---------------------------------------------------------------------------
(* A game played with joysticks: the first frames of run_game with one   *)
(* or two joysticks connected, their sticks moving between the frames    *)
(* and their hats and buttons sending events.                            *)

PadFrames == 2         \* frames of a session under SpecPad

\* a joystick with its sticks and its hat at rest
Pad(numaxes, numhats) ==
    [numaxes |-> numaxes, numhats |-> numhats, axis1 |-> 0, axis3 |-> 0,
     hat |-> <<0, 0>>]

\* JOYSTICKS after init_joysticks: one joystick with one stick and a hat,
\* one with two sticks and a hat, one with neither, two joysticks
PadSets ==
    {<<Pad(2, 1)>>, <<Pad(4, 1)>>, <<Pad(0, 0)>>, <<Pad(2, 1), Pad(2, 1)>>}

\* the events the joysticks send: the hat pressed up, down, sideways and
\* let go, the three buttons run_game knows and one it does not
PadEvents ==
    [type : {"JOYHATMOTION"}, key : {""}, joy : {0, 1},
     value : {<<0, 1>>, <<0, -1>>, <<1, 0>>, <<0, 0>>}]
      \cup [type : {"JOYBUTTONDOWN"}, key : {""}, button : 0..3]

InitPad ==
    /\ pc = "poll"
    /\ dt = 0
    /\ left = Paddle(20, HEIGHT \div 2 - PADDLE_HEIGHT \div 2)
    /\ right = Paddle(WIDTH - 20 - PADDLE_WIDTH, HEIGHT \div 2 - PADDLE_HEIGHT \div 2)
    /\ \E a \in RallyAngles : ball = BallReset([x |-> 0], 1, a)
    /\ score_left = 0
    /\ score_right = 0
    /\ scorer = 0
    /\ \E mode \in Modes : right_ai = (mode = "1p")
    /\ paused = FALSE
    /\ hit = "none"
    /\ frame = 0
    /\ nkeys = 0
    /\ event = NoEvent
    /\ pads \in PadSets
    /\ settings \in GameSettings(Difficulties, Qualities)
    /\ NoShell
    /\ particles = <<>>
    /\ shake_timer = 0
    /\ shake_magnitude = 0
    /\ base = 0
    /\ intensity = 0
    /\ elapsed = 0
    /\ heap = NoHeap
    /\ result = "running"

NextPad ==
    \/ Poll(RallyDt, PadFrames)
    \/ Event(PadEvents, RallyAngles)
    \/ Integrate
    \/ Collide
    \/ Score(RallyAngles)
    \/ Effects

SpecPad == InitPad /\ [][NextPad]_vars

---------------------------------------------------------------------------
(* The frame of run_game step by step: what Integrate and Effects do at  *)
(* once is done here one statement group after the other, and the steps  *)
(* that change nothing of the state modelled (the trail, the drawing,    *)
(* the samples, the debug overlay and display.flip) are steps too.       *)

FrameFrames == 5       \* frames of a session under SpecFrame

\* the statement groups of the loop body with the trail ahead of Ball.update
FrameStepsTrailFirst ==
    <<"poll", "events", "ai", "paddles", "trail", "ball", "collide", "score",
      "effects", "shake", "render", "sample", "present">>

\* the statement groups of the loop body, lines 810-1096, in their order
FrameSteps ==
    <<"poll", "events", "ai", "paddles", "ball", "trail", "collide", "score",
      "effects", "shake", "render", "sample", "present">>

\* the statement group that follows step; the first follows the last
Following(step) ==
    LET i == CHOOSE k \in 1..Len(FrameSteps) : FrameSteps[k] = step
    IN  FrameSteps[(i % Len(FrameSteps)) + 1]

\* the step at pc changes nothing of the state
Pass ==
    /\ pc' = Following(pc)
    /\ UNCHANGED <<dt, left, right, ball, score_left, score_right, scorer,
                   paused, hit, frame, nkeys, event, pads, particles,
                   shake_timer, shake_magnitude, result>>
    /\ UNCHANGED fixed

\* the event queue is empty
Drained ==
    /\ pc = "events"
    /\ pc' = Following(pc)
    /\ event' = NoEvent
    /\ UNCHANGED <<dt, left, right, ball, score_left, score_right, scorer,
                   paused, hit, frame, nkeys, pads, particles,
                   shake_timer, shake_magnitude, result>>
    /\ UNCHANGED fixed

\* if right_ai: ai_move(right, ball, settings)
FrameAi ==
    /\ pc = "ai"
    /\ right' = IF right_ai THEN ai_move(right, ball, ai_difficulty) ELSE right
    /\ pc' = Following(pc)
    /\ UNCHANGED <<dt, left, ball, score_left, score_right, scorer,
                   paused, hit, frame, nkeys, event, pads, particles,
                   shake_timer, shake_magnitude, result>>
    /\ UNCHANGED fixed

\* left.move(dt); right.move(dt)
FramePaddles ==
    /\ pc = "paddles"
    /\ left' = PaddleMove(left, dt)
    /\ right' = PaddleMove(right, dt)
    /\ pc' = Following(pc)
    /\ UNCHANGED <<dt, ball, score_left, score_right, scorer,
                   paused, hit, frame, nkeys, event, pads, particles,
                   shake_timer, shake_magnitude, result>>
    /\ UNCHANGED fixed

\* if not paused: ball.update(dt)
FrameBall ==
    /\ pc = "ball"
    /\ ball' = IF ~paused THEN BallUpdate(ball, dt) ELSE ball
    /\ pc' = Following(pc)
    /\ UNCHANGED <<dt, left, right, score_left, score_right, scorer,
                   paused, hit, frame, nkeys, event, pads, particles,
                   shake_timer, shake_magnitude, result>>
    /\ UNCHANGED fixed

\* the trail takes the ball's position and drops its old entries
FrameTrail == pc = "trail" /\ Pass

\* the particles advance and the dead ones are dropped
FrameParticles ==
    /\ pc = "effects"
    /\ particles' = StepParticles(particles, dt)
    /\ pc' = Following(pc)
    /\ UNCHANGED <<dt, left, right, ball, score_left, score_right, scorer,
                   paused, hit, frame, nkeys, event, pads,
                   shake_timer, shake_magnitude, result>>
    /\ UNCHANGED fixed

\* the shake timer decays
FrameShake ==
    /\ pc = "shake"
    /\ shake_timer' = IF shake_timer > 0 THEN Max(0, shake_timer - dt)
                      ELSE shake_timer
    /\ shake_magnitude' = IF shake_timer > 0 /\ shake_timer' <= 0 THEN 0
                          ELSE shake_magnitude
    /\ pc' = Following(pc)
    /\ UNCHANGED <<dt, left, right, ball, score_left, score_right, scorer,
                   paused, hit, frame, nkeys, event, pads, particles, result>>
    /\ UNCHANGED fixed

\* the scene is drawn on the screen surface
FrameRender == pc = "render" /\ Pass

\* frame_times, update_times and draw_times take the durations of the frame
FrameSample == pc = "sample" /\ Pass

\* the debug overlay is drawn and display.flip shows the frame
FramePresent == pc = "present" /\ Pass

InitFrame == InitWith(RallyAngles)

NextFrame ==
    \/ Poll(DtSet, FrameFrames)
    \/ Event(Events, RallyAngles)
    \/ Drained
    \/ FrameAi
    \/ FramePaddles
    \/ FrameBall
    \/ FrameTrail
    \/ Collide
    \/ Score(RallyAngles)
    \/ BannerQuit
    \/ BannerDone(RallyAngles)
    \/ FrameParticles
    \/ FrameShake
    \/ FrameRender
    \/ FrameSample
    \/ FramePresent

SpecFrame == InitFrame /\ [][NextFrame]_vars

---------------------------------------------------------------------------
(* A serve that meets the paddle's end: regular frames, shallow angles *)

EdgeFrames == 70       \* frames of a session under SpecEdge
\* random.uniform(-0.5, 0.5), thousandths: level and 0.07 either way
EdgeAngles == {-70, 0, 70}

InitEdge == InitWith(EdgeAngles)

NextEdge ==
    \/ Poll(RallyDt, EdgeFrames)
    \/ Integrate
    \/ Collide
    \/ Score(EdgeAngles)
    \/ Effects

SpecEdge == InitEdge /\ [][NextEdge]_vars

---------------------------------------------------------------------------
(* The frame after a paddle's answer: frames of no length and of 1 ms *)

TouchFrames == 6       \* frames of a session under SpecTouch
\* clock.tick(FPS), ms: no time, the least time, a regular frame and the
\* stall that carries a level serve onto a paddle
TouchDt == {0, 1, 20, 1400}

NextTouch ==
    \/ Poll(TouchDt, TouchFrames)
    \/ Integrate
    \/ Collide
    \/ Score(RallyAngles)
    \/ Effects

SpecTouch == InitRally /\ [][NextTouch]_vars

---------------------------------------------------------------------------
(* show_winner_and_wait, lines 747-767, one pass of its loop at a time,  *)
(* in sessions of stalled frames in which a side wins within a few       *)
(* frames.                                                               *)

BannerFrames == 6      \* frames of a session under SpecBanner
MaxBannerEvents == 3   \* events of a session under SpecBanner

wait_ms == 1800

\* time from one reading of the clock to the next, ms: a pass paced by
\* clock.tick(60), and a stalled one
BannerDt == {17, 700}

\* the events pg.event.get() hands to the banner
BannerEvents ==
    {[type |-> t, key |-> ""] :
        t \in {"QUIT", "KEYDOWN", "KEYUP", "JOYBUTTONDOWN", "MOUSEBUTTONDOWN",
               "MOUSEMOTION"}}

\* the elapsed time read once per pass instead of since the start
ElapsedSinceTick(ms, d) == d

\* elapsed = (time.perf_counter() - start) * 1000.0, d after the reading ms
Elapsed(ms, d) == ms + d

\* lines 992-999 with the game left paused after a banner
BannerReturnsPaused(quit, A) ==
    /\ elapsed' = 0
    /\ IF quit
       THEN /\ pc' = "exit"
            /\ result' = "None"
            /\ UNCHANGED <<score_left, score_right, ball, paused>>
       ELSE /\ pc' = "effects"
            /\ score_left' = 0
            /\ score_right' = 0
            /\ \E d \in {-1, 1} : \E a \in A : ball' = BallReset(ball, d, a)
            /\ paused' = TRUE
            /\ UNCHANGED result

\* lines 992-999 once show_winner_and_wait has returned quit
BannerReturns(quit, A) ==
    /\ elapsed' = 0
    /\ IF quit
       THEN /\ pc' = "exit"
            /\ result' = "None"
            /\ UNCHANGED <<score_left, score_right, ball, paused>>
       ELSE /\ pc' = "effects"
            /\ score_left' = 0
            /\ score_right' = 0
            /\ \E d \in {-1, 1} : \E a \in A : ball' = BallReset(ball, d, a)
            /\ paused' = FALSE
            /\ UNCHANGED result

\* the banner is drawn and flipped, the events are fetched
BannerShow ==
    /\ pc = "banner"
    /\ pc' = "banner_events"
    /\ UNCHANGED <<dt, left, right, ball, score_left, score_right, scorer,
                   paused, hit, frame, nkeys, event, pads, particles,
                   shake_timer, shake_magnitude, result>>
    /\ UNCHANGED fixed

\* one event of the pass
BannerEvent(E, A) ==
    /\ pc = "banner_events"
    /\ nkeys < MaxBannerEvents
    /\ nkeys' = nkeys + 1
    /\ \E e \in E :
         /\ event' = e
         /\ IF e.type = "QUIT" THEN BannerReturns(TRUE, A)
            ELSE IF e.type \in {"KEYDOWN", "JOYBUTTONDOWN", "MOUSEBUTTONDOWN"}
            THEN BannerReturns(FALSE, A)
            ELSE UNCHANGED <<pc, elapsed, result, score_left, score_right, ball,
                             paused>>
    /\ UNCHANGED <<dt, left, right, scorer, hit, frame, pads, particles,
                   shake_timer, shake_magnitude>>
    /\ UNCHANGED <<right_ai, settings, disk, loaded, save_result, menu,
                   committed, changes, writes, exit_status, base, intensity,
                   heap>>

\* the events of the pass are done: the timeout, or clock.tick(60)
BannerWait(D, A) ==
    /\ pc = "banner_events"
    /\ \E d \in D :
         IF Elapsed(elapsed, d) >= wait_ms
         THEN BannerReturns(FALSE, A)
         ELSE /\ elapsed' = Elapsed(elapsed, d)
              /\ pc' = "banner"
              /\ UNCHANGED <<result, score_left, score_right, ball, paused>>
    /\ event' = NoEvent
    /\ UNCHANGED <<dt, left, right, scorer, hit, frame, nkeys, pads, particles,
                   shake_timer, shake_magnitude>>
    /\ UNCHANGED <<right_ai, settings, disk, loaded, save_result, menu,
                   committed, changes, writes, exit_status, base, intensity,
                   heap>>

InitBanner == InitWith(RallyAngles)

NextBanner ==
    \/ Poll(DtSet, BannerFrames)
    \/ Integrate
    \/ Collide
    \/ Score(RallyAngles)
    \/ Effects
    \/ BannerShow
    \/ BannerEvent(BannerEvents, RallyAngles)
    \/ BannerWait(BannerDt, RallyAngles)

\* the loop of the banner keeps running: no pass of it waits for an event
SpecBanner ==
    /\ InitBanner
    /\ [][NextBanner]_vars
    /\ WF_vars(BannerShow)
    /\ WF_vars(BannerWait(BannerDt, RallyAngles))

---------------------------------------------------------------------------
(* The keyboard used while joysticks are connected *)

HeldFrames == 2        \* frames of a session under SpecHeld

InitHeld == InitPad

NextHeld ==
    \/ Poll(RallyDt, HeldFrames)
    \/ Event(KeyEvents, RallyAngles)
    \/ Integrate
    \/ Collide
    \/ Score(RallyAngles)
    \/ Effects

SpecHeld == InitHeld /\ [][NextHeld]_vars

---------------------------------------------------------------------------
(* Sessions in which a regular frame is followed by a stalled one: the   *)
(* ball then meets a paddle or leaves the board while the shake of the   *)
(* event before is still on.                                             *)

ShakeFrames == 4       \* frames of a session under SpecShake

\* clock.tick(FPS), ms: a regular frame and two stalled ones, of which the
\* longer takes a level serve from the centre onto a paddle
ShakeDt == {20, 1000, 1400}

InitShake == InitWith(AngleSet)

NextShake ==
    \/ Poll(ShakeDt, ShakeFrames)
    \/ Integrate
    \/ Collide
    \/ Score(AngleSet)
    \/ Effects

SpecShake == InitShake /\ [][NextShake]_vars

---------------------------------------------------------------------------
(* main and the menus.  A session starts in the main menu, with the      *)
(* settings load_settings returned.                                       *)

MaxChanges == 1        \* changes of a value or a binding, and resets, made
                       \* by the user in a session

\* frames of a game started from the main menu, each of them stalled
ShellFrames == 6
ShellDt == {2000}

\* the events a menu is given
MenuKeys == {"UP", "DOWN", "LEFT", "RIGHT", "RETURN", "ESCAPE", "BACKSPACE", "x"}
MenuEvents == {[type |-> "QUIT", key |-> ""]} \cup [type : {"KEYDOWN"}, key : MenuKeys]

\* the keys pressed while controls_rebind_menu awaits the key of a binding
AwaitedKeys == {"ESCAPE", "BACKSPACE", "x"}

\* the events a game started from the main menu is given
ShellEvents ==
    {[type |-> "QUIT", key |-> ""],
     [type |-> "KEYDOWN", key |-> "m"],
     [type |-> "KEYDOWN", key |-> "ESCAPE"]}

\* a settings file written by an earlier session
EarlierSettings ==
    [ai_difficulty |-> "Hard", particle_quality |-> "Low", sound |-> "False",
     controls |-> [a \in ActionNames |-> IF a = "debug" THEN "F3" ELSE "None"]]

\* a settings file with a difficulty that is none of the three
DamagedFile ==
    [kind |-> "dict", data |-> [ai_difficulty |-> "Insane"],
     controls_is_dict |-> FALSE]

\* the machines a session runs on: the primary directory in use, with no
\* file, with the file of an earlier session, with a damaged one, with a
\* file that cannot be written; the primary directory blocked; both
\* directories blocked
ShellDisks ==
    {[NoDisk EXCEPT !.primary = [dir |-> "dir", file |-> f]] :
        f \in {NoFile, Pickled(EarlierSettings), DamagedFile}}
      \cup {[NoDisk EXCEPT !.primary = [dir |-> "dir", file |-> Pickled(EarlierSettings)],
                           !.writable = FALSE],
            [NoDisk EXCEPT !.primary.dir = "blocked"],
            [NoDisk EXCEPT !.primary.dir = "blocked", !.fallback.dir = "blocked"]}

\* the options of settings_menu and their values
OptionVals ==
    <<<<"Easy", "Normal", "Hard">>, <<"Low", "Normal", "High">>, <<>>,
      <<"Off", "On">>, <<>>, <<>>, <<>>>>
OptionField == <<"ai_difficulty", "particle_quality", "", "sound", "", "", "">>

\* the actions of controls_rebind_menu
RebindActions ==
    <<"left_up", "left_down", "right_up", "right_down", "reset", "menu",
      "debug", "__reset_defaults__", "__apply__", "__back__">>

\* (selected + step) % n
Cursor(selected, step, n) == (selected + step + n) % n

\* vals.index(cur), 0 when cur is not in vals
Index(vals, cur) ==
    IF \E i \in 1..Len(vals) : vals[i] = cur
    THEN CHOOSE i \in 1..Len(vals) : vals[i] = cur
    ELSE 0

\* settings_get_label_value
settings_get_label_value(st, option) ==
    IF OptionField[option] = "sound"
    THEN IF st.sound \in {"False", "None"} THEN "Off" ELSE "On"
    ELSE st[OptionField[option]]

\* settings_set_label_value
settings_set_label_value(st, option, value) ==
    IF OptionField[option] = "sound"
    THEN [st EXCEPT !.sound = IF value = "On" THEN "True" ELSE "False"]
    ELSE [st EXCEPT ![OptionField[option]] = value]

\* all_unbound of the Apply of controls_rebind_menu
all_unbound(b) == \A a \in DOMAIN b : b[a] = "None"

InitShell ==
    /\ pc = "main_menu"
    /\ disk \in ShellDisks
    /\ loaded = load_settings(disk)
    /\ settings = loaded
    /\ save_result = "none"
    /\ menu = NoMenu(settings)
    /\ committed = settings
    /\ changes = 0
    /\ writes = 0
    /\ exit_status = -1
    /\ NoGame

\* main leaves its loop: save_settings(settings), pg.quit(), sys.exit()
Break ==
    LET r == save_settings(disk, settings)
    IN  /\ disk' = r.disk
        /\ save_result' = r.result
        /\ writes' = 1
        /\ pc' = "exited"
        /\ exit_status' = IF r.result = "raised" THEN 1 ELSE 0

\* save_settings(st) in a menu that then goes on at next; the exception
\* save_settings lets through ends the process
SaveAnd(st, next) ==
    LET r == save_settings(disk, st)
    IN  /\ disk' = r.disk
        /\ save_result' = r.result
        /\ writes' = 1
        /\ pc' = IF r.result = "raised" THEN "exited" ELSE next
        /\ exit_status' = IF r.result = "raised" THEN 1 ELSE exit_status

\* the handler saves nothing and goes on at next
NoSave(next) ==
    /\ writes' = 0
    /\ pc' = next
    /\ UNCHANGED <<disk, save_result, exit_status>>

\* an uncaught exception
Crash ==
    /\ writes' = 0
    /\ pc' = "exited"
    /\ exit_status' = 1
    /\ UNCHANGED <<disk, save_result>>

\* run_game(screen, clock, font, small_font, mode, settings): lines 774-802
StartGame(mode, A) ==
    /\ pc' = "poll"
    /\ dt' = 0
    /\ left' = Paddle(20, HEIGHT \div 2 - PADDLE_HEIGHT \div 2)
    /\ right' = Paddle(WIDTH - 20 - PADDLE_WIDTH, HEIGHT \div 2 - PADDLE_HEIGHT \div 2)
    /\ \E a \in A : ball' = BallReset(ball, 1, a)
    /\ score_left' = 0
    /\ score_right' = 0
    /\ scorer' = 0
    /\ right_ai' = (mode = "1p")
    /\ paused' = FALSE
    /\ hit' = "none"
    /\ frame' = 0
    /\ nkeys' = 0
    /\ particles' = <<>>
    /\ shake_timer' = 0
    /\ shake_magnitude' = 0
    /\ result' = "running"
    /\ writes' = 0
    /\ UNCHANGED <<pads, base, intensity, elapsed, heap, disk, save_result,
                   exit_status>>

\* what is kept of the event a menu is handling: its type
Dispatched(e) == [e EXCEPT !.key = ""]

\* main_menu handling one event, and what main does with its return value
MainMenu(A) ==
    /\ pc = "main_menu"
    /\ \E e \in MenuEvents :
         LET selected == menu.selected.main_menu
         IN  /\ event' = Dispatched(e)
             /\ UNCHANGED <<settings, loaded, committed, changes>>
             /\ IF e.type = "QUIT" \/ e.key = "ESCAPE"
                     \/ (e.key = "RETURN" /\ selected = 3)
                THEN Break /\ UNCHANGED menu /\ UNCHANGED game
                ELSE IF e.key = "RETURN" /\ selected \in {0, 1}
                THEN /\ StartGame(IF selected = 0 THEN "1p" ELSE "2p", A)
                     /\ menu' = NoMenu(settings)
                ELSE IF e.key = "RETURN"
                THEN /\ NoSave("settings_menu")
                     /\ menu' = NoMenu(settings)
                     /\ UNCHANGED game
                ELSE /\ NoSave("main_menu")
                     /\ menu' = [menu EXCEPT !.selected.main_menu =
                                    IF e.key = "UP" THEN Cursor(selected, -1, 4)
                                    ELSE IF e.key = "DOWN" THEN Cursor(selected, 1, 4)
                                    ELSE selected]
                     /\ UNCHANGED game

\* run_game has returned to main
GameReturned ==
    /\ pc = "exit"
    /\ IF result = "None" THEN Break ELSE NoSave("main_menu")
    /\ UNCHANGED <<event, settings, loaded, menu, committed, changes>>
    /\ UNCHANGED game

\* the settings of settings_menu become st: by a change of the dict in
\* place, which main sees when the dict is its own
Mutate(st) ==
    /\ menu' = [menu EXCEPT !.settings = st]
    /\ settings' = IF menu.shared THEN st ELSE settings
    /\ committed' = st
    /\ changes' = changes + 1

\* settings_menu returns its settings and main makes them its own
ReturnSettings ==
    /\ settings' = menu.settings
    /\ menu' = NoMenu(menu.settings)

\* settings_menu changing the value of the option selected, by step
ChangeValue(selected, step) ==
    LET vals == OptionVals[selected + 1]
        cur == settings_get_label_value(menu.settings, selected + 1)
        i == Index(vals, cur)
        new == vals[Cursor(i - 1, step, Len(vals)) + 1]
        st == settings_set_label_value(menu.settings, selected + 1, new)
    IN  IF i = 0
        THEN Crash /\ UNCHANGED <<settings, menu, committed, changes>>
        ELSE /\ changes < MaxChanges
             /\ Mutate(st)
             /\ SaveAnd(st, "settings_menu")

\* settings_menu handling one event
SettingsMenu ==
    /\ pc = "settings_menu"
    /\ \E e \in MenuEvents :
         LET selected == menu.selected.settings_menu
             vals == OptionVals[selected + 1]
         IN  /\ event' = Dispatched(e)
             /\ UNCHANGED loaded
             /\ UNCHANGED game
             /\ IF e.type = "QUIT"
                THEN Break /\ UNCHANGED <<settings, menu, committed, changes>>
                ELSE IF e.key = "ESCAPE" \/ (e.key = "RETURN" /\ selected = 6)
                THEN /\ SaveAnd(menu.settings, "main_menu")
                     /\ ReturnSettings
                     /\ UNCHANGED <<committed, changes>>
                ELSE IF e.key \in {"UP", "DOWN"}
                THEN /\ NoSave("settings_menu")
                     /\ menu' = [menu EXCEPT !.selected.settings_menu =
                                    Cursor(selected, IF e.key = "UP" THEN -1 ELSE 1, 7)]
                     /\ UNCHANGED <<settings, committed, changes>>
                ELSE IF e.key \in {"LEFT", "RIGHT"} /\ vals # <<>>
                THEN ChangeValue(selected, IF e.key = "LEFT" THEN -1 ELSE 1)
                ELSE IF e.key = "RETURN" /\ selected = 2
                THEN /\ NoSave("controls_rebind_menu")
                     /\ menu' = [menu EXCEPT !.bindings = menu.settings.controls,
                                             !.selected.controls_rebind_menu = 0,
                                             !.awaiting_action_key = "None"]
                     /\ UNCHANGED <<settings, committed, changes>>
                ELSE IF e.key = "RETURN" /\ selected = 4
                THEN /\ NoSave("credits_menu")
                     /\ UNCHANGED <<settings, menu, committed, changes>>
                ELSE IF e.key = "RETURN" /\ selected = 5
                THEN /\ NoSave("popup_yellow")
                     /\ menu' = [menu EXCEPT !.selected_yes = TRUE]
                     /\ UNCHANGED <<settings, committed, changes>>
                ELSE IF e.key = "RETURN"
                THEN ChangeValue(selected, 1)
                ELSE /\ NoSave("settings_menu")
                     /\ UNCHANGED <<settings, menu, committed, changes>>

\* credits_menu handling one event: it returns None for a key and for
\* QUIT alike, and settings_menu goes on
CreditsMenu ==
    /\ pc = "credits_menu"
    /\ \E e \in MenuEvents :
         /\ event' = Dispatched(e)
         /\ NoSave("settings_menu")
    /\ UNCHANGED <<settings, loaded, menu, committed, changes>>
    /\ UNCHANGED game

\* the Apply of controls_rebind_menu once it is not held back by the popup
Apply ==
    LET st == [menu.settings EXCEPT !.controls = menu.bindings]
    IN  /\ menu' = [menu EXCEPT !.settings = st,
                                !.bindings = st.controls,
                                !.selected.controls_rebind_menu = 0,
                                !.selected_yes = TRUE]
        /\ settings' = IF menu.shared THEN st ELSE settings
        /\ committed' = st
        /\ SaveAnd(st, "settings_menu")
        /\ UNCHANGED changes

\* Back with bindings an alias of settings["controls"] instead of a copy
LeaveRebindKeepsEdits ==
    /\ NoSave("settings_menu")
    /\ menu' = [menu EXCEPT !.settings.controls = menu.bindings,
                            !.selected.controls_rebind_menu = 0,
                            !.awaiting_action_key = "None"]
    /\ UNCHANGED <<settings, committed, changes>>

\* controls_rebind_menu returns settings to settings_menu
LeaveRebind ==
    /\ NoSave("settings_menu")
    /\ menu' = [menu EXCEPT !.bindings = menu.settings.controls,
                            !.selected.controls_rebind_menu = 0,
                            !.awaiting_action_key = "None"]
    /\ UNCHANGED <<settings, committed, changes>>

\* controls_rebind_menu handling one event
RebindMenu ==
    /\ pc = "controls_rebind_menu"
    /\ \E e \in MenuEvents :
         LET selected == menu.selected.controls_rebind_menu
             key == RebindActions[selected + 1]
             awaiting_key == menu.awaiting_action_key # "None"
         IN  /\ event' = Dispatched(e)
             /\ UNCHANGED loaded
             /\ UNCHANGED game
             /\ IF e.type = "QUIT"
                THEN Break /\ UNCHANGED <<settings, menu, committed, changes>>
                ELSE IF awaiting_key /\ e.key = "ESCAPE"
                THEN /\ NoSave("controls_rebind_menu")
                     /\ menu' = [menu EXCEPT !.awaiting_action_key = "None"]
                     /\ UNCHANGED <<settings, committed, changes>>
                ELSE IF awaiting_key
                THEN /\ e.key \in AwaitedKeys
                     /\ changes < MaxChanges
                     /\ changes' = changes + 1
                     /\ menu' = [menu EXCEPT
                                    !.bindings[menu.awaiting_action_key] =
                                        IF e.key = "BACKSPACE" THEN "None" ELSE e.key,
                                    !.awaiting_action_key = "None"]
                     /\ SaveAnd(menu.settings, "controls_rebind_menu")
                     /\ UNCHANGED <<settings, committed>>
                ELSE IF e.key \in {"UP", "DOWN"}
                THEN /\ NoSave("controls_rebind_menu")
                     /\ menu' = [menu EXCEPT !.selected.controls_rebind_menu =
                                    Cursor(selected, IF e.key = "UP" THEN -1 ELSE 1, 10)]
                     /\ UNCHANGED <<settings, committed, changes>>
                ELSE IF e.key = "ESCAPE" \/ (e.key = "RETURN" /\ key = "__back__")
                THEN LeaveRebind
                ELSE IF e.key = "RETURN" /\ key = "__reset_defaults__"
                THEN /\ changes < MaxChanges
                     /\ changes' = changes + 1
                     /\ NoSave("controls_rebind_menu")
                     /\ menu' = [menu EXCEPT !.bindings = DEFAULT_SETTINGS.controls]
                     /\ UNCHANGED <<settings, committed>>
                ELSE IF e.key = "RETURN" /\ key = "__apply__"
                THEN IF all_unbound(menu.bindings)
                     THEN /\ NoSave("popup_unbound")
                          /\ menu' = [menu EXCEPT !.selected_yes = TRUE]
                          /\ UNCHANGED <<settings, committed, changes>>
                     ELSE Apply
                ELSE IF e.key = "RETURN"
                THEN /\ NoSave("controls_rebind_menu")
                     /\ menu' = [menu EXCEPT !.awaiting_action_key = key]
                     /\ UNCHANGED <<settings, committed, changes>>
                ELSE IF e.key = "BACKSPACE" /\ selected < 7
                THEN /\ changes < MaxChanges
                     /\ changes' = changes + 1
                     /\ NoSave("controls_rebind_menu")
                     /\ menu' = [menu EXCEPT !.bindings[key] = "None"]
                     /\ UNCHANGED <<settings, committed>>
                ELSE /\ NoSave("controls_rebind_menu")
                     /\ UNCHANGED <<settings, menu, committed, changes>>

\* what colored_confirm_popup returns for the event e: "True", "False", or
\* "" while it stays up
PopupAnswer(e) ==
    IF e.type = "QUIT" \/ e.key = "ESCAPE" THEN "False"
    ELSE IF e.key = "RETURN" THEN IF menu.selected_yes THEN "True" ELSE "False"
    ELSE ""

\* colored_confirm_popup handling one event, and what its caller does with
\* the answer: reset_settings_flow for the two popups of Reset Settings,
\* controls_rebind_menu for the popup of Apply
Popup ==
    /\ pc \in {"popup_yellow", "popup_red", "popup_unbound"}
    /\ \E e \in MenuEvents :
         /\ event' = Dispatched(e)
         /\ UNCHANGED loaded
         /\ UNCHANGED game
         /\ IF PopupAnswer(e) = ""
            THEN /\ NoSave(pc)
                 /\ menu' = [menu EXCEPT !.selected_yes =
                                IF e.key = "LEFT" THEN TRUE
                                ELSE IF e.key = "RIGHT" THEN FALSE
                                ELSE menu.selected_yes]
                 /\ UNCHANGED <<settings, committed, changes>>
            ELSE IF PopupAnswer(e) = "False"
            THEN /\ NoSave(IF pc = "popup_unbound" THEN "controls_rebind_menu"
                           ELSE "settings_menu")
                 /\ menu' = [menu EXCEPT !.selected_yes = TRUE]
                 /\ UNCHANGED <<settings, committed, changes>>
            ELSE IF pc = "popup_yellow"
            THEN /\ NoSave("popup_red")
                 /\ UNCHANGED <<settings, menu, committed, changes>>
            ELSE IF pc = "popup_red"
            THEN /\ changes < MaxChanges
                 /\ changes' = changes + 1
                 /\ menu' = [menu EXCEPT !.settings = DEFAULT_SETTINGS,
                                         !.shared = FALSE]
                 /\ committed' = DEFAULT_SETTINGS
                 /\ SaveAnd(DEFAULT_SETTINGS, "settings_menu")
                 /\ UNCHANGED settings
            ELSE Apply

NextShell ==
    \/ MainMenu(RallyAngles)
    \/ SettingsMenu
    \/ CreditsMenu
    \/ RebindMenu
    \/ Popup
    \/ GameReturned
    \/ Poll(ShellDt, ShellFrames)
    \/ Event(ShellEvents, RallyAngles)
    \/ Integrate
    \/ Collide
    \/ Score(RallyAngles)
    \/ BannerQuit
    \/ BannerDone(RallyAngles)
    \/ Effects

SpecShell == InitShell /\ [][NextShell]_vars

\* the menus alone: a game that is started is not played
NextMenus ==
    \/ MainMenu(RallyAngles)
    \/ SettingsMenu
    \/ CreditsMenu
    \/ RebindMenu
    \/ Popup

SpecMenus == InitShell /\ [][NextMenus]_vars

---------------------------------------------------------------------------
(* The dict objects behind the settings: DEFAULT_SETTINGS, the records   *)
(* main and settings_menu hold, the bindings of controls_rebind_menu.    *)
(* A name is the index of its object in heap.obj, 0 for no object; an    *)
(* assignment d[k] = v changes the object for every name that refers to  *)
(* it, d.copy() makes a new one.                                         *)

MaxObjects == 8        \* dict objects made in a session under SpecHeap

\* the files load_settings may find: none, that of an earlier session, one
\* that pickle.load cannot read
HeapFiles ==
    {NoFile, Pickled(EarlierSettings),
     [kind |-> "corrupt", data |-> <<>>, controls_is_dict |-> FALSE]}

\* the values set in settings_menu and the keys bound in the rebind menu
HeapValues ==
    {<<"ai_difficulty", "Easy">>, <<"sound", "False">>}
HeapKeys == {<<"left_up", "x">>, <<"debug", "None">>}

\* every variable but pc and heap
noheap ==
    <<dt, left, right, ball, score_left, score_right, scorer, right_ai,
      paused, hit, frame, nkeys, event, pads, settings, disk, loaded,
      save_result, menu, committed, changes, writes, exit_status, particles,
      shake_timer, shake_magnitude, base, intensity, elapsed, result>>

\* the object a itself where the code takes a copy of it
CopyIsAlias(h, a) == [heap |-> h, ref |-> a]

\* d.copy() for the object a: a new object with the items of a
Copy(h, a) ==
    [heap |-> [h EXCEPT !.obj = Append(@, h.obj[a])], ref |-> Len(h.obj) + 1]

\* d[k] = v for the object a
SetItem(h, a, k, v) == [h EXCEPT !.obj[a][k] = v]

\* s = DEFAULT_SETTINGS.copy(); s["controls"] = DEFAULT_SETTINGS["controls"].copy()
CopyOfDefaults(h) ==
    LET s == Copy(h, 1)
        c == Copy(s.heap, s.heap.obj[1].controls)
    IN  [heap |-> SetItem(c.heap, s.ref, "controls", c.ref), ref |-> s.ref]

\* load_settings for the file f: the object it returns
LoadedObject(h, f) ==
    IF f.kind = "dict"
    THEN LET s == Copy(h, 1)
             c == Copy(s.heap, s.heap.obj[1].controls)
             stored == IF "controls" \in DOMAIN f.data /\ f.controls_is_dict
                       THEN f.data.controls
                       ELSE <<>>
             merged == [c.heap EXCEPT !.obj[c.ref] = Update(@, stored)]
             updated == [merged EXCEPT !.obj[s.ref] = Update(@, f.data)]
         IN  [heap |-> SetItem(updated, s.ref, "controls", c.ref), ref |-> s.ref]
    ELSE IF f.kind = "corrupt"
    THEN Copy(h, 1)
    ELSE CopyOfDefaults(h)

\* the record a refers to, with its controls
Value(h, a) == [h.obj[a] EXCEPT !.controls = h.obj[@]]

InitHeap ==
    /\ pc = "load"
    /\ disk = NoDisk
    /\ settings = DEFAULT_SETTINGS
    /\ loaded = DEFAULT_SETTINGS
    /\ save_result = "none"
    /\ menu = NoMenu(settings)
    /\ committed = settings
    /\ changes = 0
    /\ writes = 0
    /\ exit_status = -1
    /\ NoGame

\* main: settings = load_settings()
HeapLoad(F) ==
    /\ pc = "load"
    /\ \E f \in F :
         LET r == LoadedObject(heap, f)
         IN  heap' = [r.heap EXCEPT !.main = r.ref]
    /\ pc' = "main_menu"
    /\ UNCHANGED noheap

\* main: settings_menu(..., settings)
HeapMainMenu ==
    /\ pc = "main_menu"
    /\ heap' = [heap EXCEPT !.menu = heap.main]
    /\ pc' = "settings_menu"
    /\ UNCHANGED noheap

\* settings_menu: a value is changed, Reset Settings is confirmed, the
\* rebind menu is opened, or settings is returned to main
HeapSettingsMenu(V) ==
    /\ pc = "settings_menu"
    /\ \/ /\ \E v \in V : heap' = SetItem(heap, heap.menu, v[1], v[2])
          /\ pc' = pc
       \/ /\ Len(heap.obj) + 2 <= MaxObjects
          /\ LET r == CopyOfDefaults(heap)
             IN  heap' = [r.heap EXCEPT !.menu = r.ref]
          /\ pc' = pc
       \/ /\ Len(heap.obj) < MaxObjects
          /\ LET b == Copy(heap, heap.obj[heap.menu].controls)
             IN  heap' = [b.heap EXCEPT !.bindings = b.ref]
          /\ pc' = "controls_rebind_menu"
       \/ /\ heap' = [heap EXCEPT !.main = heap.menu, !.menu = 0]
          /\ pc' = "main_menu"
    /\ UNCHANGED noheap

\* controls_rebind_menu: a key is bound or unbound, the bindings are reset
\* to the defaults, applied, or given up
HeapRebindMenu(K) ==
    /\ pc = "controls_rebind_menu"
    /\ \/ /\ \E k \in K : heap' = SetItem(heap, heap.bindings, k[1], k[2])
          /\ pc' = pc
       \/ /\ Len(heap.obj) < MaxObjects
          /\ LET b == Copy(heap, heap.obj[1].controls)
             IN  heap' = [b.heap EXCEPT !.bindings = b.ref]
          /\ pc' = pc
       \/ /\ Len(heap.obj) < MaxObjects
          /\ LET c == Copy(heap, heap.bindings)
             IN  heap' = [SetItem(c.heap, heap.menu, "controls", c.ref)
                            EXCEPT !.bindings = 0]
          /\ pc' = "settings_menu"
       \/ /\ heap' = [heap EXCEPT !.bindings = 0]
          /\ pc' = "settings_menu"
    /\ UNCHANGED noheap

NextHeap ==
    \/ HeapLoad(HeapFiles)
    \/ HeapMainMenu
    \/ HeapSettingsMenu(HeapValues)
    \/ HeapRebindMenu(HeapKeys)

SpecHeap == InitHeap /\ [][NextHeap]_vars

---------------------------------------------------------------------------
(* Properties *)

\* C1: after Paddle.move, for every dt and every velocity, the paddle's y is
\* within [0, HEIGHT - PADDLE_HEIGHT]: both paddles lie inside the board
\* after the paddle step of every frame, and so in every state.
PaddleInBoard ==
    /\ 0 <= left.y /\ left.y <= Px(HEIGHT - PADDLE_HEIGHT)
    /\ 0 <= right.y /\ right.y <= Px(HEIGHT - PADDLE_HEIGHT)
    /\ left.rect_y \in 0..(HEIGHT - PADDLE_HEIGHT)
    /\ right.rect_y \in 0..(HEIGHT - PADDLE_HEIGHT)

\* the left paddle was driven up past the top edge in this frame and stopped
\* at it, and the right paddle down past the bottom edge
PaddleStoppedAtEdge ==
    /\ pc = "collide"
    /\ \/ left.speed < 0 /\ left.y = 0 /\ dt > 0
       \/ right.speed > 0 /\ right.y = Px(HEIGHT - PADDLE_HEIGHT) /\ dt > 0

\* C2: after Ball.update the ball's y is within
\* [BALL_SIZE / 2, HEIGHT - BALL_SIZE / 2], whatever resets, collisions and
\* scores came before.
BallInBoard ==
    /\ Px(BALL_SIZE) \div 2 <= ball.y
    /\ ball.y <= Px(HEIGHT) - Px(BALL_SIZE) \div 2

\* Ball.update has just put the ball back on the top bound
BallBouncedAtTop ==
    /\ pc = "collide"
    /\ ball.y = Px(BALL_SIZE) \div 2
    /\ ball.vy > 0

\* C3: after the collision response the ball's vx points away from the
\* paddle it overlapped: vx > 0 for the left paddle, vx < 0 for the right.
AwayFromPaddle ==
    pc = "score" =>
        /\ hit = "left" => ball.vx > 0
        /\ hit = "right" => ball.vx < 0

LeftPaddleAnswered == pc = "score" /\ hit = "left"

\* the growth factor 1 + BALL_SPEED_INCREMENT / 10 as GrowthNum / GrowthDen
GrowthNum == (100 + BALL_SPEED_INCREMENT) \div 4
GrowthDen == 100 \div 4

\* the least r with r * r >= n
IsqrtUp(n) == IF Isqrt(n) * Isqrt(n) = n THEN Isqrt(n) ELSE Isqrt(n) + 1

\* |offset * 150| of the ball against paddle p
AbsDeflection(b, p) ==
    (150 * Abs(b.cy - (p.rect_y + PADDLE_HEIGHT \div 2))) \div (PADDLE_HEIGHT \div 2)

\* the collision step is answering a collision with exactly this paddle
AnswersLeft == pc = "collide" /\ hit' = "left"
AnswersRight == pc = "collide" /\ hit' = "right"

\* C4, as claimed: the speed after the whole collision response is at most
\* the speed just before the collision times the growth factor.
SpeedGrowthBounded ==
    [][AnswersLeft \/ AnswersRight =>
          GrowthDen * GrowthDen * Speed2(ball')
              <= GrowthNum * GrowthNum * Speed2(ball)]_vars

\* C4, amended: the speed after the whole collision response is at most
\* (the speed just before the collision + |offset * 150|) times the growth
\* factor, offset being the hit offset of that collision.
SpeedGrowthBoundedByDeflection ==
    [][/\ AnswersLeft =>
            GrowthDen * GrowthDen * Speed2(ball')
                <= GrowthNum * GrowthNum
                     * (IsqrtUp(Speed2(ball)) + AbsDeflection(ball, left))
                     * (IsqrtUp(Speed2(ball)) + AbsDeflection(ball, left))
       /\ AnswersRight =>
            GrowthDen * GrowthDen * Speed2(ball')
                <= GrowthNum * GrowthNum
                     * (IsqrtUp(Speed2(ball)) + AbsDeflection(ball, right))
                     * (IsqrtUp(Speed2(ball)) + AbsDeflection(ball, right))]_vars

\* a paddle has just answered a ball that hit it off its centre
OffCentreHit ==
    /\ pc = "score"
    /\ \/ hit = "left" /\ AbsDeflection(ball, left) > 0
       \/ hit = "right" /\ AbsDeflection(ball, right) > 0

\* C5, as claimed: the ball's speed never exceeds MAX_BALL_SPEED, and a
\* collision at a speed at or above MAX_BALL_SPEED does not increase it.
SpeedNeverAboveMax ==
    /\ [](Speed2(ball) <= MAX_BALL_SPEED * MAX_BALL_SPEED)
    /\ [][/\ AnswersLeft \/ AnswersRight
          /\ Speed2(ball) >= MAX_BALL_SPEED * MAX_BALL_SPEED
          => Speed2(ball') <= Speed2(ball)]_vars

\* the ball's rect is wholly beyond the left, the right edge of the board
ExitedLeft == ball.cx - BALL_SIZE \div 2 + BALL_SIZE < 0
ExitedRight == ball.cx - BALL_SIZE \div 2 > WIDTH

AtCentre == ball.x = Px(WIDTH \div 2) /\ ball.y = Px(HEIGHT \div 2)

\* C7, as claimed: at the start of the frame after any scoring event, a win
\* included, the ball is at the centre and moves toward the side that
\* conceded (scorer = 1: the left side conceded).
ServeTowardLoserAlways ==
    pc = "poll" /\ scorer # 0 =>
        /\ AtCentre
        /\ scorer = 1 => ball.vx < 0
        /\ scorer = -1 => ball.vx > 0

\* C7, amended: the same for every scoring event that does not complete a
\* win; after a win the ball is at the centre, served to either side.  The
\* scores are both 0 at the start of the frame after a score exactly when
\* that score completed a win.
ServeTowardLoser ==
    pc = "poll" /\ scorer # 0 =>
        /\ AtCentre
        /\ score_left + score_right > 0 =>
              /\ scorer = 1 => ball.vx < 0
              /\ scorer = -1 => ball.vx > 0

\* a frame starts after the left side conceded a point that won nothing
ServedAfterLeftConceded == pc = "poll" /\ scorer = 1 /\ score_right > 0

\* C8: a score that reaches SCORE_TO_WIN = 5 puts the winner banner up in
\* the same frame; the banner is left only by quitting or with both scores
\* at 0; so every frame starts with both scores in 0..4.
WinHandled ==
    /\ [](/\ score_left >= SCORE_TO_WIN \/ score_right >= SCORE_TO_WIN =>
               pc = "banner" \/ (pc = "exit" /\ result = "None")
          /\ pc = "poll" =>
               score_left \in 0..(SCORE_TO_WIN - 1)
                 /\ score_right \in 0..(SCORE_TO_WIN - 1))
    /\ [][pc = "banner" /\ pc' # "exit" =>
              score_left' = 0 /\ score_right' = 0]_vars

\* the banner has been shown and left without quitting
BannerLeft ==
    pc = "effects" /\ scorer # 0 /\ score_left = 0 /\ score_right = 0

\* C9: one call of emit_particles appends between 2 and 200 particles to
\* the particle list, for every quality and every intensity.
EmitBounded ==
    [][pc = "emit" /\ pc' = "emitted" =>
          Len2(particles') - Len2(particles) \in 2..200]_vars

\* emit_particles has run with a count that its cap of 200 cut
EmittedAtCap ==
    /\ pc = "emitted"
    /\ (get_particle_count(particle_quality, 12) * intensity) \div 1000 > 200

\* C10, as claimed: for every base >= 1 the counts are strictly increasing
\* over the qualities: Low < Normal < High.
CountsIncrease ==
    pc = "counted" /\ base >= 1 =>
        /\ get_particle_count("Low", base) < get_particle_count("Normal", base)
        /\ get_particle_count("Normal", base) < get_particle_count("High", base)

\* C10, amended: the same for every base >= 2.
CountsIncreaseFromTwo ==
    pc = "counted" /\ base >= 2 =>
        /\ get_particle_count("Low", base) < get_particle_count("Normal", base)
        /\ get_particle_count("Normal", base) < get_particle_count("High", base)

\* the count has been taken for the smallest base the order holds at
CountedBaseTwo == pc = "counted" /\ base = 2 /\ particle_quality = "High"

\* the key codes a binding may hold
KeyCodes == {"w", "s", "UP", "DOWN", "r", "m", "F3", "a", "x", "ESCAPE"}

\* C11, as claimed: a record saved with save_settings, which reported no
\* failure, and then loaded with load_settings comes back equal, every
\* binding included, an unbound one still unbound.
RoundTrip ==
    pc = "reloaded" /\ save_result = "ok" => loaded = settings

\* C12: for each difficulty ai_move leaves the paddle's velocity at 0 when
\* the ball centre is within the deadzone (14, 8, 4 px) of the paddle centre
\* and otherwise at 0.7, 1.0, 1.35 times PADDLE_SPEED toward the ball;
\* nothing but the two vertical centres and the difficulty enters.
AiFollowsBall ==
    pc = "moved" =>
        LET d == ball.cy - (right.rect_y + PADDLE_HEIGHT \div 2)
            zone == CASE ai_difficulty = "Easy" -> 14
                      [] ai_difficulty = "Normal" -> 8
                      [] ai_difficulty = "Hard" -> 4
            tenths == CASE ai_difficulty = "Easy" -> 70
                        [] ai_difficulty = "Normal" -> 100
                        [] ai_difficulty = "Hard" -> 135
        IN  /\ Abs(d) <= zone => right.speed = 0
            /\ d > zone => 100 * right.speed = tenths * PADDLE_SPEED
            /\ d < -zone => 100 * right.speed = -tenths * PADDLE_SPEED

\* ai_move has run on Easy with the ball exactly on the edge of the deadzone
\* of a paddle that was moving, and on Hard with the ball beyond it
AiAtDeadzoneEdge ==
    /\ pc = "moved"
    /\ \/ /\ ai_difficulty = "Easy"
          /\ ball.cy - (right.rect_y + PADDLE_HEIGHT \div 2) = 14
          /\ right.speed = 0
       \/ /\ ai_difficulty = "Hard"
          /\ ball.cy - (right.rect_y + PADDLE_HEIGHT \div 2) = -5
          /\ right.speed < 0

\* the values a field of the settings may validly hold
ValidValues(field) ==
    CASE field = "ai_difficulty" -> {"Easy", "Normal", "Hard"}
      [] field = "particle_quality" -> {"Low", "Normal", "High"}
      [] field = "sound" -> {"True", "False"}

\* C15, as claimed: whatever the settings file holds, load_settings returns
\* a record whose ai_difficulty, particle_quality and sound are valid and
\* whose controls give each of the 7 actions a key or None; a valid stored
\* field is kept, a missing or invalid one has its default.
LoadedIsValid ==
    pc = "loaded" =>
        LET f == disk.primary.file
            stored(field) == f.kind = "dict" /\ field \in DOMAIN f.data
            bound(a) == stored("controls") /\ f.controls_is_dict
                          /\ a \in DOMAIN f.data.controls
        IN  /\ DOMAIN loaded = FieldNames
            /\ DOMAIN loaded.controls = ActionNames
            /\ \A field \in FieldNames \ {"controls"} :
                 /\ loaded[field] \in ValidValues(field)
                 /\ loaded[field] =
                      IF stored(field) /\ f.data[field] \in ValidValues(field)
                      THEN f.data[field]
                      ELSE DEFAULT_SETTINGS[field]
            /\ \A a \in ActionNames :
                 /\ loaded.controls[a] \in KeyCodes \cup {"None"}
                 /\ loaded.controls[a] =
                      IF bound(a) /\ f.data.controls[a] \in KeyCodes \cup {"None"}
                      THEN f.data.controls[a]
                      ELSE DEFAULT_SETTINGS.controls[a]

\* the screens of main and the menus
Screens ==
    {"main_menu", "settings_menu", "controls_rebind_menu", "credits_menu",
     "popup_yellow", "popup_red", "popup_unbound"}

\* C13, as claimed: a QUIT event received on any screen - a menu, the
\* credits, a popup, the running game, the winner banner - takes the program
\* to main, which saves the settings and exits with status 0 (the status is
\* left open where save_settings itself raised), with no further event.
QuitUnwinds ==
    [][/\ pc \in Screens /\ event'.type = "QUIT" =>
            /\ pc' = "exited"
            /\ writes' = 1
            /\ save_result' # "raised" => exit_status' = 0
       /\ pc = "events" /\ event'.type = "QUIT" =>
            pc' = "exit" /\ result' = "None"
       /\ pc = "banner" /\ pc' = "exit" => result' = "None"
       /\ pc = "exit" /\ result = "None" =>
            /\ pc' = "exited"
            /\ writes' = 1
            /\ save_result' # "raised" => exit_status' = 0]_vars

\* the file save_settings last wrote
Persisted ==
    IF disk.primary.dir = "dir" THEN disk.primary.file ELSE disk.fallback.file

\* C14, as claimed: when the program has exited, and the last save reported
\* no failure, the settings file holds the settings last committed through
\* the settings menus.
PersistedIsCommitted ==
    pc = "exited" /\ exit_status = 0 /\ save_result = "ok" =>
        Persisted = Pickled(committed)

\* C16, as claimed: save_settings always returns normally, so that no
\* failure to write ends the session, and an event makes it write at most
\* once.
WriteFailureNotFatal ==
    /\ save_result # "raised"
    /\ writes <= 1

\* C17, as claimed: the dt of a frame, which Paddle.move, Ball.update and
\* the particles are given, is at most a fixed cap however long clock.tick
\* took; the cap is taken as large as one second, sixty frames at FPS.
DtCapped ==
    pc \in {"events", "collide", "score", "effects"} => dt <= MsPerSec

\* C18: a KEYUP of a paddle's up key sets its speed to 0 only when the
\* paddle is moving up, a KEYUP of its down key only when it is moving
\* down; the release of the opposite or of any other key leaves the speed
\* as it was.
KeyUpClearsHeldDirection ==
    [][pc = "events" /\ event'.type = "KEYUP" =>
          /\ left'.speed =
                IF \/ event'.key = controls.left_up /\ left.speed < 0
                   \/ event'.key = controls.left_down /\ left.speed > 0
                THEN 0 ELSE left.speed
          /\ right'.speed =
                IF \/ event'.key = controls.right_up /\ right.speed < 0
                   \/ event'.key = controls.right_down /\ right.speed > 0
                THEN 0 ELSE right.speed]_vars

\* the down key of the left paddle has been released and the paddle is
\* still moving up
ReleasedOppositeKey ==
    /\ nkeys = 1
    /\ event = [type |-> "KEYUP", key |-> controls.left_down]
    /\ left.speed = -PADDLE_SPEED

\* C19, as claimed: once the joysticks have been polled, and whatever
\* events of theirs have been dispatched since, a joystick whose hat stands
\* at y = 0 gives its paddle the speed of its axis 1: the axis value times
\* PADDLE_SPEED beyond the deadzone of 0.20, and 0 inside it.
HatReplacesAxisOnlyWhenActive ==
    pc = "events" =>
        /\ Len(pads) >= 1 /\ pads[1].numaxes > 1 /\ pads[1].hat[2] = 0 =>
              left.speed = IF Abs(pads[1].axis1) < 200 THEN 0
                           ELSE (pads[1].axis1 * PADDLE_SPEED) \div 1000
        /\ Len(pads) >= 2 /\ pads[2].numaxes > 1 /\ pads[2].hat[2] = 0 =>
              right.speed = IF Abs(pads[2].axis1) < 200 THEN 0
                            ELSE (pads[2].axis1 * PADDLE_SPEED) \div 1000

ShakeRaisedToMax ==
    [][/\ AnswersLeft \/ AnswersRight =>
            /\ shake_timer' = IF shake_timer >= 120 THEN shake_timer ELSE 120
            /\ \E strength \in 800..3000 :
                 LET m == IF 6 * strength <= 18000 THEN 6 * strength ELSE 18000
                 IN  shake_magnitude' =
                       IF shake_magnitude >= m THEN shake_magnitude ELSE m
       /\ pc = "score" /\ scorer' # 0 =>
            /\ shake_timer' = IF shake_timer >= 220 THEN shake_timer ELSE 220
            /\ shake_magnitude' =
                 IF shake_magnitude >= 22000 THEN shake_magnitude ELSE 22000
       /\ pc \in {"collide", "score"} =>
            shake_timer' >= shake_timer /\ shake_magnitude' >= shake_magnitude]_vars

\* a paddle has answered the ball while the shake of a score was still on:
\* timer and magnitude are those of the score
ImpactDuringScoreShake ==
    /\ pc = "score"
    /\ hit # "none"
    /\ shake_timer > 120
    /\ shake_magnitude = 22000

\* C22: one Ball.update negates vy exactly when, after the position step,
\* the ball's top edge is at or above the top bound or its bottom edge at
\* or below the bottom bound, and then only once; otherwise vy is kept.
BouncesOncePerUpdate ==
    [][pc = "events" /\ pc' = "collide" =>
         LET half_h == Px(BALL_SIZE) \div 2
             y == ball.y + ball.vy * dt
         IN  ball'.vy = IF y - half_h <= 0 \/ y + half_h >= Px(HEIGHT)
                        THEN -ball.vy
                        ELSE ball.vy]_vars

\* Ball.update has just put the ball back on the bottom bound
BallBouncedAtBottom ==
    /\ pc = "collide"
    /\ ball.y = Px(HEIGHT) - Px(BALL_SIZE) \div 2
    /\ ball.vy < 0

\* C23: the hit offset of a collision lies in [-1, 1], so that one
\* collision changes vy by at most 150 px/s before the growth scaling.
OffsetWithinUnit ==
    [][/\ AnswersLeft =>
            /\ 2 * Abs(ball.cy - PaddleCenterY(left)) <= PADDLE_HEIGHT
            /\ Abs(Deflection(ball, left)) <= 150
       /\ AnswersRight =>
            /\ 2 * Abs(ball.cy - PaddleCenterY(right)) <= PADDLE_HEIGHT
            /\ Abs(Deflection(ball, right)) <= 150]_vars

\* C24: the impact strength of a collision is the ball's new speed, after
\* the growth scaling, over BALL_SPEED_START, clamped to [0.8, 3.0]: the
\* particles emitted and the shake magnitude are those of that strength.
StrengthFromNewSpeed ==
    [][AnswersLeft \/ AnswersRight =>
         LET strength == ImpactStrength(Speed2(ball'))
         IN  /\ shake_magnitude' =
                   IF shake_magnitude >= ImpactShake(strength)
                   THEN shake_magnitude
                   ELSE ImpactShake(strength)
             /\ \E life \in LifeSet :
                  particles' = emit_particles(particles, particle_quality,
                                              strength, life)]_vars

\* C25: the particle step of a frame ages every particle by the frame's
\* dt, those emitted in that frame included, and removes exactly those
\* whose age has reached their life: none with age >= life is left.
ParticlesAgedAndPruned ==
    [][pc = "effects" =>
         /\ \A i \in 1..Len(particles') :
               /\ particles'[i].age < particles'[i].life
               /\ particles'[i].age >= dt
         /\ Len(particles') =
               Cardinality({i \in 1..Len(particles) :
                              particles[i].age + dt < particles[i].life})]_vars

\* particles emitted in a frame have been aged by that frame's step
FreshParticlesAged ==
    /\ pc = "poll"
    /\ hit # "none"
    /\ particles # <<>>
    /\ particles[Len(particles)].age = dt

\* C26: show_winner_and_wait returns: at the first KEYDOWN, JOYBUTTONDOWN
\* or MOUSEBUTTONDOWN event with no quit request, at the first QUIT event
\* with one, and otherwise, with none, at the first reading of the clock
\* that shows wait_ms = 1800 ms elapsed; its loop goes on only below that
\* time, and every banner is left.
BannerNeverBlocks ==
    /\ [][pc = "banner_events" =>
            /\ nkeys' # nkeys /\ event'.type = "QUIT" =>
                  pc' = "exit" /\ result' = "None"
            /\ /\ nkeys' # nkeys
               /\ event'.type \in {"KEYDOWN", "JOYBUTTONDOWN", "MOUSEBUTTONDOWN"}
               => pc' = "effects" /\ result' = "running"
            /\ /\ nkeys' # nkeys
               /\ event'.type \in {"KEYUP", "MOUSEMOTION"}
               => pc' = "banner_events" /\ elapsed' = elapsed
            /\ pc' = "exit" => nkeys' # nkeys /\ event'.type = "QUIT"
            /\ pc' = "banner" => elapsed' > elapsed /\ elapsed' < wait_ms
            /\ nkeys' = nkeys /\ pc' = "effects" =>
                  \E d \in BannerDt : elapsed + d >= wait_ms]_vars
    /\ [](pc \in {"banner", "banner_events"} => elapsed < wait_ms)
    /\ (pc = "banner") ~> (pc \notin {"banner", "banner_events"})

\* the banner has timed out over events that do not end it, and the next
\* round is on
BannerTimedOut ==
    /\ pc = "effects"
    /\ scorer # 0
    /\ score_left = 0
    /\ score_right = 0
    /\ event = NoEvent
    /\ nkeys = MaxBannerEvents

\* every joystick has its sticks inside the deadzone and its hat at 0
AtRest(J) ==
    \A i \in DOMAIN J :
        /\ Abs(J[i].axis1) < AXIS_DEADZONE
        /\ Abs(J[i].axis3) < AXIS_DEADZONE
        /\ J[i].hat = <<0, 0>>

\* C27: a key-down of a direction key sets its paddle's velocity to the
\* key's signed PADDLE_SPEED, and no later step but a key event changes
\* it: not the integration, and not the polling of joysticks that rest
\* inside the deadzone with their hats at 0 (in a one-player game the
\* right paddle is left to ai_move).
KeyVelocityHeld ==
    [][/\ pc = "events" /\ event'.type = "KEYDOWN" =>
            /\ event'.key = controls.left_up => left'.speed = -PADDLE_SPEED
            /\ event'.key = controls.left_down => left'.speed = PADDLE_SPEED
            /\ event'.key = controls.right_up /\ ~right_ai =>
                  right'.speed = -PADDLE_SPEED
            /\ event'.key = controls.right_down /\ ~right_ai =>
                  right'.speed = PADDLE_SPEED
       /\ \/ pc = "poll" /\ AtRest(pads) /\ AtRest(pads')
          \/ pc = "events" /\ pc' = "collide"
          \/ pc \in {"collide", "score", "effects"}
          => /\ left'.speed = left.speed
             /\ ~right_ai => right'.speed = right.speed]_vars

\* the controls held by the file save_settings last wrote on the disk d,
\* read the way load_settings reads a settings file
PersistedControls(d) ==
    LET f == IF d.primary.dir = "dir" THEN d.primary.file ELSE d.fallback.file
    IN  load_settings([d EXCEPT !.primary.file = f]).controls

\* C28: no step of controls_rebind_menu or of its popup but Apply changes
\* the controls of the settings in memory or those of the settings file,
\* whatever was bound, unbound or reset to the defaults, so
\* that Back and Escape leave both as they were on entry; Apply sets the
\* controls in memory to the edited bindings and, when the write reports
\* no failure, those of the file too.
RebindOnlyThroughApply ==
    [][(pc \in {"controls_rebind_menu", "popup_unbound"} /\ pc' # "exited") =>
         (IF pc' = "settings_menu" /\ writes' = 1
          THEN /\ menu'.settings.controls = menu.bindings
               /\ menu.shared => settings'.controls = menu.bindings
               /\ save_result' = "ok" =>
                     PersistedControls(disk') = menu.bindings
          ELSE /\ menu'.settings.controls = menu.settings.controls
               /\ settings'.controls = settings.controls
               /\ PersistedControls(disk') = PersistedControls(disk))]_vars

\* a binding has been changed and applied: the settings menu is back with
\* it in memory and in the file
ReboundAndApplied ==
    /\ pc = "settings_menu"
    /\ menu.settings.controls.left_up = "x"
    /\ PersistedControls(disk).left_up = "x"
    /\ save_result = "ok"

\* C29: in a one-player game the right paddle is integrated with the speed
\* ai_move computes in that frame from the paddle and the ball, whatever
\* the polling of the joysticks and the events of the frame made of it.
AiDecidesRightPaddle ==
    [][pc = "events" /\ pc' = "collide" /\ right_ai =>
         LET speed == AiSpeed(right, ball, ai_difficulty)
         IN  /\ right'.speed = speed
             /\ right'.y = PaddleClamp(right.y + speed * dt)]_vars

\* the right paddle has been integrated at the speed of ai_move while the
\* stick or the hat that steers it in a two-player game is held fully
AiOverrodeStick ==
    /\ pc = "collide"
    /\ right_ai
    /\ Abs(PollRight(right, pads)) = PADDLE_SPEED
    /\ right.speed # PollRight(right, pads)

\* C30: paused is false in every state of a session, and the integration
\* step of every frame moves the ball by Ball.update, whatever events the
\* session has seen and also after a winner banner.
NeverPaused ==
    /\ [](paused = FALSE)
    /\ [][pc = "events" /\ pc' = "collide" =>
            ball' = BallUpdate(ball, dt)]_vars

\* the ball has been integrated in the first frame after a winner banner
BallMovesAfterBanner ==
    /\ pc = "collide"
    /\ scorer # 0
    /\ score_left = 0
    /\ score_right = 0
    /\ ball.x # Px(WIDTH \div 2)

\* C31: DEFAULT_SETTINGS and its controls keep their initial values
\* whatever is loaded, changed, rebound, applied and reset, and a
\* confirmed Reset Settings gives settings_menu a record with exactly the
\* compiled-in defaults.
DefaultsNeverMutated ==
    /\ [](Value(heap, 1) = DEFAULT_SETTINGS)
    /\ [][pc = "settings_menu" /\ pc' = "settings_menu"
            /\ heap'.menu # heap.menu
            => Value(heap', heap'.menu) = DEFAULT_SETTINGS]_vars

\* Reset Settings has been confirmed after a rebind was applied to the
\* record main holds
ResetAfterRebind ==
    /\ pc = "settings_menu"
    /\ heap.menu # heap.main
    /\ Value(heap, heap.main).controls.left_up = "x"
    /\ Value(heap, heap.menu) = DEFAULT_SETTINGS

\* the step serves the ball: Ball.reset after a score, a winner banner or
\* the reset key
Serves ==
    /\ pc \in {"score", "banner", "banner_events", "events"}
    /\ ball' # ball
    /\ ball'.x = Px(WIDTH \div 2)
    /\ ball'.y = Px(HEIGHT \div 2)

\* C32: |vx| is at least BALL_SPEED_START in every state of a session;
\* Ball.update, wall bounces included, leaves |vx| as it is, a collision
\* step leaves it or multiplies it by the growth factor, and no step but
\* a serve lowers it.
HorizontalSpeedKept ==
    /\ [](Abs(ball.vx) >= BALL_SPEED_START)
    /\ [][/\ pc = "collide" =>
               Abs(ball'.vx) \in {Abs(ball.vx), Scale(Abs(ball.vx))}
          /\ pc = "events" /\ pc' = "collide" => ball'.vx = ball.vx
          /\ ~Serves => Abs(ball'.vx) >= Abs(ball.vx)]_vars

\* a paddle has answered the ball, and |vx| has grown beyond that of any
\* serve
GrownByPaddle ==
    /\ pc = "score"
    /\ hit # "none"
    /\ Abs(ball.vx) > (BALL_SPEED_START * 3) \div 2

\* C33: the frame after a paddle answered the ball, the collision check
\* finds the ball's rectangle clear of that paddle, whatever the frame's
\* length, so no paddle answers the ball in two consecutive frames
NoRepeatedCollision ==
    pc = "collide" =>
        /\ hit \in {"left", "both"} => ~Colliderect(ball, left)
        /\ hit \in {"right", "both"} => ~Colliderect(ball, right)

TouchingAfterAnswer ==
    /\ pc = "collide"
    /\ dt = 0
    /\ \/ hit = "left" /\ BallLeft(ball) = PaddleRightEdge(left)
                        /\ BallTop(ball) < left.rect_y + PADDLE_HEIGHT
                        /\ BallBottom(ball) > left.rect_y
       \/ hit = "right" /\ BallRight(ball) = PaddleLeftEdge(right)
                         /\ BallTop(ball) < right.rect_y + PADDLE_HEIGHT
                         /\ BallBottom(ball) > right.rect_y
====
